---- MODULE Spec2Model ----
(***************************************************************************)
(* QR attendance server: the token lifecycle, the attendance ledger and    *)
(* the geofence check, as implemented by                                   *)
(*   src/routes/auth.js   (lines 113-287 lecture routes, 289-491           *)
(*                         attendance routes),                             *)
(*   src/utils/location.js (calculateDistance, validateLocation),          *)
(*   src/README.md        (lines 122-320, class Database).                 *)
(*   src/middleware/auth.js (authenticateToken),                           *)
(*   src/public/js/student.js, src/public/js/api.js (the student page).    *)
(*                                                                         *)
(* Representation of JavaScript values.  A request field is a tagged       *)
(* record: Undefined, Null, Str(s) with s the sequence of the string's     *)
(* characters, Num(n), or NaN.  A Num carries an integer in the unit of    *)
(* its quantity: coordinates in 1e-4 degree, distances and radii in        *)
(* millimetres (a double d is represented by ceil(1000 d), which keeps     *)
(* every comparison d <= r the model makes: see Haversine), instants in    *)
(* milliseconds since the epoch of the run.                                *)
(***************************************************************************)
EXTENDS Integers, Sequences, FiniteSets, TLC

VARIABLES
    lectures,    \* db.data.lectures: the array, in insertion order
    attendance,  \* db.data.attendance: the array, in insertion order
    now,         \* the wall clock read by Date.now() / new Date()
    ticks,       \* number of clock advances so far (bounds the run)
    uuids,       \* number of uuidv4() values drawn so far
    superseded,  \* history: the bindings that regenerate-qr has replaced
    reply,       \* the response on the wire, or NoReply
    disk,        \* the lectures and the attendance that data.json holds
    awaiting,    \* the handlers suspended at an await, each with what it holds
    page         \* the student page open in a browser: what it shows and holds

vars ==
    <<lectures, attendance, now, ticks, page, uuids, superseded, reply, disk, awaiting>>

-----------------------------------------------------------------------------
(* Bounds of the model. *)

MaxLectures == 2      \* lectures stored at the same time
MaxAttendance == 2    \* attendance records stored at the same time
MaxTicks == 2         \* clock advances in one run
MaxUuid == 2          \* uuidv4() values drawn in one run
MaxAwaiting == 2      \* handlers suspended at the same time

-----------------------------------------------------------------------------
(* JavaScript values. *)

Undefined == [t |-> "undefined"]
Null == [t |-> "null"]
NaN == [t |-> "NaN"]
\* What JSON.parse makes of a number too large for a double, such as 1e999.
Infinity == [t |-> "Infinity"]
Str(s) == [t |-> "string", s |-> s]
Num(n) == [t |-> "number", n |-> n]

\* !v is FALSE: undefined, null, "", 0 and NaN are falsy.
Truthy(v) ==
    CASE v.t = "undefined" -> FALSE
      [] v.t = "null" -> FALSE
      [] v.t = "NaN" -> FALSE
      [] v.t = "Infinity" -> TRUE
      [] v.t = "string" -> Len(v.s) > 0
      [] v.t = "number" -> v.n # 0

\* ToNumber, as applied by -, * and <= to an operand.  The strings of the
\* input domain that reach arithmetic are non-numeric and non-empty.
ToNumber(v) ==
    CASE v.t = "number" -> v
      [] v.t = "NaN" -> NaN
      [] v.t = "Infinity" -> Infinity
      [] v.t = "undefined" -> NaN
      [] v.t = "null" -> Num(0)
      [] v.t = "string" -> NaN

\* Faulty variant of LessEq: !(x > y), which is true as soon as one side is
\* NaN.
LessEq_NaNPasses(x, y) ==
    LET a == ToNumber(x)
        b == ToNumber(y)
    IN  \/ a.t = "NaN" \/ b.t = "NaN"
        \/ b.t = "Infinity"
        \/ a.t = "number" /\ b.t = "number" /\ a.n <= b.n

\* x <= y on numbers: false as soon as one side is NaN; every number is
\* <= Infinity.
LessEq(x, y) ==
    LET a == ToNumber(x)
        b == ToNumber(y)
    IN  /\ a.t # "NaN" /\ b.t # "NaN"
        /\ \/ b.t = "Infinity"
           \/ a.t = "number" /\ b.t = "number" /\ a.n <= b.n

\* Characters of the strings of the model.
WhiteSpace == {" "}
UpperOf(c) ==
    CASE c = "a" -> "A"
      [] c = "b" -> "B"
      [] c = "x" -> "X"
      [] OTHER -> c

\* String.prototype.toUpperCase
toUpperCase(s) == [i \in 1..Len(s) |-> UpperOf(s[i])]

\* String.prototype.trim: drops the leading and the trailing white space.
RECURSIVE trimStart(_)
trimStart(s) ==
    IF s # <<>> /\ Head(s) \in WhiteSpace THEN trimStart(Tail(s)) ELSE s

RECURSIVE trimEnd(_)
trimEnd(s) ==
    IF s # <<>> /\ s[Len(s)] \in WhiteSpace
    THEN trimEnd(SubSeq(s, 1, Len(s) - 1))
    ELSE s

trim(s) == trimEnd(trimStart(s))

\* Date.prototype.toISOString and new Date(isoString): the string carries
\* the instant with millisecond precision.
toISOString(ms) == [t |-> "string", iso |-> ms]
NewDate(v) == v.iso

-----------------------------------------------------------------------------
(* src/utils/location.js *)

\* The numeric coordinates of the model, in 1e-4 degree: the reference point
\* (12.9716, 77.5946) and points 100.075 m and 200.151 m north of it, each
\* also 43.343 m further east; and latitude 0, which is what a null latitude
\* is in arithmetic.  (The longitudes of the model are never null: a distance
\* along the equator to longitude 0 does not fit a 32-bit integer.)
Latitudes == {0, 129716, 129725, 129734}
Longitudes == {775946, 775950}

\* R * c of calculateDistance for the numeric coordinates of the model: the
\* double the source's formula yields (R = 6371000, toRad, dLat, dLng, a, c),
\* rounded up to a whole millimetre.  For an integral number of millimetres r,
\* and for r one of these doubles itself, d <= r holds of the doubles exactly
\* when it holds of their images here.
Haversine ==
    <<0, 775946, 0, 775946>> :> 0
    @@ <<0, 775946, 0, 775950>> :> 44478
    @@ <<0, 775946, 129716, 775946>> :> 1442376111
    @@ <<0, 775946, 129716, 775950>> :> 1442376112
    @@ <<0, 775946, 129725, 775946>> :> 1442476186
    @@ <<0, 775946, 129725, 775950>> :> 1442476187
    @@ <<0, 775946, 129734, 775946>> :> 1442576262
    @@ <<0, 775946, 129734, 775950>> :> 1442576263
    @@ <<0, 775950, 0, 775946>> :> 44478
    @@ <<0, 775950, 0, 775950>> :> 0
    @@ <<0, 775950, 129716, 775946>> :> 1442376112
    @@ <<0, 775950, 129716, 775950>> :> 1442376111
    @@ <<0, 775950, 129725, 775946>> :> 1442476187
    @@ <<0, 775950, 129725, 775950>> :> 1442476186
    @@ <<0, 775950, 129734, 775946>> :> 1442576263
    @@ <<0, 775950, 129734, 775950>> :> 1442576262
    @@ <<129716, 775946, 0, 775946>> :> 1442376111
    @@ <<129716, 775946, 0, 775950>> :> 1442376112
    @@ <<129716, 775946, 129716, 775946>> :> 0
    @@ <<129716, 775946, 129716, 775950>> :> 43343
    @@ <<129716, 775946, 129725, 775946>> :> 100076
    @@ <<129716, 775946, 129725, 775950>> :> 109059
    @@ <<129716, 775946, 129734, 775946>> :> 200151
    @@ <<129716, 775946, 129734, 775950>> :> 204791
    @@ <<129716, 775950, 0, 775946>> :> 1442376112
    @@ <<129716, 775950, 0, 775950>> :> 1442376111
    @@ <<129716, 775950, 129716, 775946>> :> 43343
    @@ <<129716, 775950, 129716, 775950>> :> 0
    @@ <<129716, 775950, 129725, 775946>> :> 109059
    @@ <<129716, 775950, 129725, 775950>> :> 100076
    @@ <<129716, 775950, 129734, 775946>> :> 204791
    @@ <<129716, 775950, 129734, 775950>> :> 200151
    @@ <<129725, 775946, 0, 775946>> :> 1442476186
    @@ <<129725, 775946, 0, 775950>> :> 1442476187
    @@ <<129725, 775946, 129716, 775946>> :> 100076
    @@ <<129725, 775946, 129716, 775950>> :> 109059
    @@ <<129725, 775946, 129725, 775946>> :> 0
    @@ <<129725, 775946, 129725, 775950>> :> 43343
    @@ <<129725, 775946, 129734, 775946>> :> 100076
    @@ <<129725, 775946, 129734, 775950>> :> 109059
    @@ <<129725, 775950, 0, 775946>> :> 1442476187
    @@ <<129725, 775950, 0, 775950>> :> 1442476186
    @@ <<129725, 775950, 129716, 775946>> :> 109059
    @@ <<129725, 775950, 129716, 775950>> :> 100076
    @@ <<129725, 775950, 129725, 775946>> :> 43343
    @@ <<129725, 775950, 129725, 775950>> :> 0
    @@ <<129725, 775950, 129734, 775946>> :> 109059
    @@ <<129725, 775950, 129734, 775950>> :> 100076
    @@ <<129734, 775946, 0, 775946>> :> 1442576262
    @@ <<129734, 775946, 0, 775950>> :> 1442576263
    @@ <<129734, 775946, 129716, 775946>> :> 200151
    @@ <<129734, 775946, 129716, 775950>> :> 204791
    @@ <<129734, 775946, 129725, 775946>> :> 100076
    @@ <<129734, 775946, 129725, 775950>> :> 109059
    @@ <<129734, 775946, 129734, 775946>> :> 0
    @@ <<129734, 775946, 129734, 775950>> :> 43343
    @@ <<129734, 775950, 0, 775946>> :> 1442576263
    @@ <<129734, 775950, 0, 775950>> :> 1442576262
    @@ <<129734, 775950, 129716, 775946>> :> 204791
    @@ <<129734, 775950, 129716, 775950>> :> 200151
    @@ <<129734, 775950, 129725, 775946>> :> 109059
    @@ <<129734, 775950, 129725, 775950>> :> 100076
    @@ <<129734, 775950, 129734, 775946>> :> 43343
    @@ <<129734, 775950, 129734, 775950>> :> 0

\* Faulty variant of calculateDistance: the latitude of the second point is
\* not read, the first point's stands for it.
calculateDistance_OneLatitude(lat1, lng1, lat2, lng2) ==
    LET n == [i \in 1..4 |-> ToNumber(<<lat1, lng1, lat2, lng2>>[i])]
    IN  IF \E i \in 1..4 : n[i].t # "number"
        THEN NaN
        ELSE Num(Haversine[<<n[1].n, n[2].n, n[1].n, n[4].n>>])

\* calculateDistance(lat1, lng1, lat2, lng2): every operand goes through
\* ToNumber (the code only subtracts and multiplies them), and a NaN operand
\* makes dLat or dLng, hence a, c and R * c, NaN; so does an infinite one,
\* whose sine and cosine are NaN.
calculateDistance(lat1, lng1, lat2, lng2) ==
    LET n == [i \in 1..4 |-> ToNumber(<<lat1, lng1, lat2, lng2>>[i])]
    IN  IF \E i \in 1..4 : n[i].t # "number"
        THEN NaN
        ELSE Num(Haversine[<<n[1].n, n[2].n, n[3].n, n[4].n>>])

\* Math.round on a distance in metres: the nearest integer, halves up.
\* The result is a whole number of metres, kept in millimetres.
MathRound(x) ==
    IF x.t = "NaN" THEN NaN ELSE Num(((x.n + 500) \div 1000) * 1000)

\* Faulty variant of validateLocation: the rounded distance is compared.
validateLocation_Rounded(studentLat, studentLng, classroomLat, classroomLng, allowedRadius) ==
    LET distance == MathRound(calculateDistance(studentLat, studentLng,
                                                classroomLat, classroomLng))
    IN  [isValid |-> LessEq(distance, allowedRadius),
         distance |-> distance]

\* validateLocation(studentLat, studentLng, classroomLat, classroomLng,
\* allowedRadius)
validateLocation(studentLat, studentLng, classroomLat, classroomLng, allowedRadius) ==
    LET distance == calculateDistance(studentLat, studentLng, classroomLat, classroomLng)
    IN  [isValid |-> LessEq(distance, allowedRadius),
         distance |-> MathRound(distance)]

-----------------------------------------------------------------------------
(* src/README.md, class Database.  The teachers collection is not part of   *)
(* this model.                                                             *)

\* fs.writeFileSync in save(): it writes the data, or it throws, save() logs
\* the error and returns, and the file keeps what it held.
SaveOutcomes == {TRUE, FALSE}
SaveSucceeds == {TRUE}

\* JSON.stringify on a value of the store, read back by JSON.parse: JSON has
\* no NaN and no Infinity and writes null for them.  (No field of the store
\* is undefined.)
jsonValue(v) == IF v.t \in {"NaN", "Infinity"} THEN Null ELSE v

\* JSON.stringify(this.data, null, 2), read back by JSON.parse: the fields
\* that hold a number of the request are converted, the others are strings
\* and integers that JSON keeps.
stringify(newLectures, newAttendance) ==
    [lectures |->
        [i \in 1..Len(newLectures) |->
            [newLectures[i] EXCEPT !.classroom_lat = jsonValue(@),
                                   !.classroom_lng = jsonValue(@),
                                   !.allowed_radius = jsonValue(@)]],
     attendance |->
        [i \in 1..Len(newAttendance) |->
            [newAttendance[i] EXCEPT !.location_lat = jsonValue(@),
                                     !.location_lng = jsonValue(@)]]]

\* save(), called once the arrays are newLectures and newAttendance: what
\* data.json holds afterwards.
save(saved, newLectures, newAttendance) ==
    IF saved
    THEN stringify(newLectures, newAttendance)
    ELSE disk

Min(S) == CHOOSE x \in S : \A y \in S : x <= y
Max(S) == CHOOSE x \in S : \A y \in S : x >= y

\* The array methods take, in place of the callback, the sequence of the
\* callback's results on the elements of the array.

\* Array.prototype.filter
RECURSIVE filter(_, _)
filter(items, keeps) ==
    IF items = <<>> THEN <<>>
    ELSE (IF Head(keeps) THEN <<Head(items)>> ELSE <<>>)
            \o filter(Tail(items), Tail(keeps))

\* Array.prototype.findIndex, 1-based; 0 stands for -1.
findIndex(tests) ==
    LET hits == {i \in 1..Len(tests) : tests[i]}
    IN  IF hits = {} THEN 0 ELSE Min(hits)

\* Array.prototype.find
find(items, tests) ==
    LET i == findIndex(tests)
    IN  IF i = 0 THEN Undefined ELSE items[i]

\* Faulty variant of nextId: the length of the collection plus one.
nextId_Length(items) == Len(items) + 1

\* nextId(collection)
nextId(items) ==
    IF Len(items) = 0 THEN 1
    ELSE Max({items[i].id : i \in 1..Len(items)}) + 1

\* String.prototype.localeCompare on the date strings of the model, whose
\* characters collate in the order "x" < "y": negative, zero or positive.
Collation == [c \in {"x", "y"} |-> IF c = "x" THEN 1 ELSE 2]

RECURSIVE localeCompare(_, _)
localeCompare(a, b) ==
    IF a = <<>> /\ b = <<>> THEN 0
    ELSE IF a = <<>> THEN 0 - 1
    ELSE IF b = <<>> THEN 1
    ELSE IF Collation[Head(a)] < Collation[Head(b)] THEN 0 - 1
    ELSE IF Collation[Head(a)] > Collation[Head(b)] THEN 1
    ELSE localeCompare(Tail(a), Tail(b))

\* The comparator of getLecturesByTeacher: the later date first, and for one
\* date the greater lecture number first.  A lecture number that is no
\* number makes the difference NaN, which sort takes for 0.
compareLectures(a, b) ==
    IF a.date # b.date
    THEN localeCompare(b.date.s, a.date.s)
    ELSE LET x == ToNumber(b.lecture_number)
             y == ToNumber(a.lecture_number)
         IN  IF x = NaN \/ y = NaN THEN 0 ELSE x.n - y.n

\* Array.prototype.sort with compareLectures: lectures that compare equal
\* keep the order they had.
RECURSIVE sortLectures(_)
sortLectures(items) ==
    IF items = <<>>
    THEN <<>>
    ELSE LET a == items[Len(items)]
             sorted == sortLectures(SubSeq(items, 1, Len(items) - 1))
             after == {i \in 1..Len(sorted) : compareLectures(sorted[i], a) > 0}
             k == IF after = {} THEN Len(sorted) + 1 ELSE Min(after)
         IN  SubSeq(sorted, 1, k - 1) \o <<a>> \o SubSeq(sorted, k, Len(sorted))

\* attendance_count of a lecture
attendanceCount(lecture) ==
    Len(filter(attendance,
               [i \in 1..Len(attendance) |-> attendance[i].lecture_id = lecture.id]))

\* Faulty variant of getLecturesByTeacher: the lectures of every teacher.
getLecturesByTeacher_AllTeachers(teacherId) ==
    LET counted == [i \in 1..Len(lectures) |->
                       lectures[i] @@ [attendance_count |-> attendanceCount(lectures[i])]]
    IN  sortLectures(counted)

\* getLecturesByTeacher(teacherId)
getLecturesByTeacher(teacherId) ==
    LET own == filter(lectures,
                      [i \in 1..Len(lectures) |-> lectures[i].teacher_id = teacherId])
        counted == [i \in 1..Len(own) |->
                       own[i] @@ [attendance_count |-> attendanceCount(own[i])]]
    IN  sortLectures(counted)

\* getLectureById(id): the lecture, or null.  (attendance_count, which the
\* code adds to the copy it returns, is not read by the handlers.)
getLectureById(id) ==
    LET test == [i \in 1..Len(lectures) |-> lectures[i].id = id]
        lecture == find(lectures, test)
    IN  IF lecture # Undefined THEN lecture ELSE Null

\* getLectureByToken(token)
getLectureByToken(token) ==
    LET test == [i \in 1..Len(lectures) |-> lectures[i].qr_token = token]
    IN  find(lectures, test)

\* createLecture(lectureData): the array after the push.  (created_at, which
\* no handler of the model reads, is left out.)
createLecture(lectureData) ==
    Append(lectures, [id |-> nextId(lectures)] @@ lectureData)

\* Faulty variant of updateLectureQR: the new expiry is stored, the new token
\* is not.
updateLectureQR_KeepToken(id, token, expiresAt) ==
    LET test == [i \in 1..Len(lectures) |-> lectures[i].id = id]
        i == findIndex(test)
    IN  IF i # 0
        THEN [lectures EXCEPT ![i].qr_expires_at = expiresAt]
        ELSE lectures

\* Faulty variant of updateLectureQR: the new token is stored, the new expiry
\* is not.
updateLectureQR_TokenOnly(id, token, expiresAt) ==
    LET test == [i \in 1..Len(lectures) |-> lectures[i].id = id]
        i == findIndex(test)
    IN  IF i # 0
        THEN [lectures EXCEPT ![i].qr_token = token]
        ELSE lectures

\* Faulty variant of updateLectureQR: the first lecture of the array is
\* updated, whatever its id.
updateLectureQR_FirstLecture(id, token, expiresAt) ==
    LET test == [i \in 1..Len(lectures) |-> lectures[i].id = id]
        i == findIndex(test)
    IN  IF i # 0
        THEN [lectures EXCEPT ![1].qr_token = token, ![1].qr_expires_at = expiresAt]
        ELSE lectures

\* Faulty variant of updateLectureQR: once the lecture is found, every
\* lecture is given the new token and expiry.
updateLectureQR_EveryLecture(id, token, expiresAt) ==
    LET test == [i \in 1..Len(lectures) |-> lectures[i].id = id]
        i == findIndex(test)
    IN  IF i # 0
        THEN [k \in 1..Len(lectures) |->
                 [lectures[k] EXCEPT !.qr_token = token, !.qr_expires_at = expiresAt]]
        ELSE lectures

\* updateLectureQR(id, token, expiresAt): the array after the update.
updateLectureQR(id, token, expiresAt) ==
    LET test == [i \in 1..Len(lectures) |-> lectures[i].id = id]
        i == findIndex(test)
    IN  IF i # 0
        THEN [lectures EXCEPT ![i].qr_token = token, ![i].qr_expires_at = expiresAt]
        ELSE lectures

\* Faulty variant of deleteLecture: the lecture's attendance records stay.
deleteLecture_NoCascade(id, teacherId) ==
    LET test == [i \in 1..Len(lectures) |->
                    lectures[i].id = id /\ lectures[i].teacher_id = teacherId]
        index == findIndex(test)
    IN  IF index # 0
        THEN [deleted |-> TRUE,
              lectures |-> SubSeq(lectures, 1, index - 1)
                           \o SubSeq(lectures, index + 1, Len(lectures)),
              attendance |-> attendance]
        ELSE [deleted |-> FALSE, lectures |-> lectures, attendance |-> attendance]

\* Faulty variant of deleteLecture: the lecture is found by its id alone.
deleteLecture_NoOwnerCheck(id, teacherId) ==
    LET test == [i \in 1..Len(lectures) |-> lectures[i].id = id]
        index == findIndex(test)
        other == [i \in 1..Len(attendance) |-> attendance[i].lecture_id # id]
    IN  IF index # 0
        THEN [deleted |-> TRUE,
              lectures |-> SubSeq(lectures, 1, index - 1)
                           \o SubSeq(lectures, index + 1, Len(lectures)),
              attendance |-> filter(attendance, other)]
        ELSE [deleted |-> FALSE, lectures |-> lectures, attendance |-> attendance]

\* Faulty variant of deleteLecture: the cascade keeps the records of the
\* deleted lecture and removes the others.
deleteLecture_CascadeOthers(id, teacherId) ==
    LET test == [i \in 1..Len(lectures) |->
                    lectures[i].id = id /\ lectures[i].teacher_id = teacherId]
        index == findIndex(test)
        own == [i \in 1..Len(attendance) |-> attendance[i].lecture_id = id]
        keep == [i \in 1..Len(lectures) |-> i # index]
    IN  IF index # 0
        THEN [deleted |-> TRUE,
              lectures |-> filter(lectures, keep),
              attendance |-> filter(attendance, own)]
        ELSE [deleted |-> FALSE, lectures |-> lectures, attendance |-> attendance]

\* Faulty variant of deleteLecture: the attendance records go, the lecture
\* stays.
deleteLecture_KeepLecture(id, teacherId) ==
    LET test == [i \in 1..Len(lectures) |->
                    lectures[i].id = id /\ lectures[i].teacher_id = teacherId]
        index == findIndex(test)
        other == [i \in 1..Len(attendance) |-> attendance[i].lecture_id # id]
    IN  IF index # 0
        THEN [deleted |-> TRUE,
              lectures |-> lectures,
              attendance |-> filter(attendance, other)]
        ELSE [deleted |-> FALSE, lectures |-> lectures, attendance |-> attendance]

\* deleteLecture(id, teacherId): what it returns and the two arrays after it.
deleteLecture(id, teacherId) ==
    LET test == [i \in 1..Len(lectures) |->
                    lectures[i].id = id /\ lectures[i].teacher_id = teacherId]
        index == findIndex(test)
        other == [i \in 1..Len(attendance) |-> attendance[i].lecture_id # id]
    IN  IF index # 0
        THEN [deleted |-> TRUE,
              lectures |-> SubSeq(lectures, 1, index - 1)
                           \o SubSeq(lectures, index + 1, Len(lectures)),
              attendance |-> filter(attendance, other)]
        ELSE [deleted |-> FALSE, lectures |-> lectures, attendance |-> attendance]

\* Faulty variant of getAttendanceByLectureAndRoll: the lecture is compared
\* with the record's own id.
getAttendanceByLectureAndRoll_ById(lectureId, rollNumber) ==
    LET test == [i \in 1..Len(attendance) |->
                    attendance[i].id = lectureId
                    /\ attendance[i].roll_number = rollNumber]
    IN  find(attendance, test)

\* Faulty variant of getAttendanceByLectureAndRoll: the roll number alone is
\* compared, whatever the lecture.
getAttendanceByLectureAndRoll_AnyLecture(lectureId, rollNumber) ==
    LET test == [i \in 1..Len(attendance) |->
                    attendance[i].roll_number = rollNumber]
    IN  find(attendance, test)

\* getAttendanceByLectureAndRoll(lectureId, rollNumber)
getAttendanceByLectureAndRoll(lectureId, rollNumber) ==
    LET test == [i \in 1..Len(attendance) |->
                    attendance[i].lecture_id = lectureId
                    /\ attendance[i].roll_number = rollNumber]
    IN  find(attendance, test)

\* Faulty variant of sortByMarkedAt: the comparison is b - a, the latest
\* record comes first.
RECURSIVE sortByMarkedAt_Descending(_)
sortByMarkedAt_Descending(items) ==
    IF items = <<>>
    THEN <<>>
    ELSE LET a == items[Len(items)]
             sorted == sortByMarkedAt_Descending(SubSeq(items, 1, Len(items) - 1))
             earlier == {i \in 1..Len(sorted) :
                            NewDate(sorted[i].marked_at) < NewDate(a.marked_at)}
             k == IF earlier = {} THEN Len(sorted) + 1 ELSE Min(earlier)
         IN  SubSeq(sorted, 1, k - 1) \o <<a>> \o SubSeq(sorted, k, Len(sorted))

\* Array.prototype.sort with (a, b) => new Date(a.marked_at) - new Date(b.marked_at):
\* the records by marked_at, those of equal marked_at in the order they had.
RECURSIVE sortByMarkedAt(_)
sortByMarkedAt(items) ==
    IF items = <<>>
    THEN <<>>
    ELSE LET a == items[Len(items)]
             sorted == sortByMarkedAt(SubSeq(items, 1, Len(items) - 1))
             later == {i \in 1..Len(sorted) :
                          NewDate(sorted[i].marked_at) > NewDate(a.marked_at)}
             k == IF later = {} THEN Len(sorted) + 1 ELSE Min(later)
         IN  SubSeq(sorted, 1, k - 1) \o <<a>> \o SubSeq(sorted, k, Len(sorted))

\* getAttendanceByLecture(lectureId): a new array, the ledger is not sorted.
getAttendanceByLecture(lectureId) ==
    LET keep == [i \in 1..Len(attendance) |-> attendance[i].lecture_id = lectureId]
    IN  sortByMarkedAt(filter(attendance, keep))

\* createAttendance(attendanceData): the record created; the handler pushes it.
createAttendance(attendanceData) ==
    [id |-> nextId(attendance)] @@ attendanceData @@ [marked_at |-> toISOString(now)]

-----------------------------------------------------------------------------
(* src/routes/auth.js, lecture routes (lines 113-287) *)

QR_EXPIRY_MINUTES == 5

\* uuidv4(): a value never drawn before.
uuidv4 == Str(<<"uuid-", ToString(uuids + 1)>>)

\* Faulty variant of generateQRData: the minutes are taken for seconds.
generateQRData_Seconds ==
    [token |-> uuidv4,
     expiresAt |-> toISOString(now + QR_EXPIRY_MINUTES * 1000)]

\* generateQRData()
generateQRData ==
    [token |-> uuidv4,
     expiresAt |-> toISOString(now + QR_EXPIRY_MINUTES * 60 * 1000)]

\* The authenticated teachers (req.teacher.id, set by authenticateToken) and
\* the values of req.params.id after parseInt.
Teachers == {1}
LectureIds == 1..(MaxLectures + 1)

\* The fields of a create-lecture body.  The subject stands for the three
\* required texts: it is the one that may be missing.
Texts == {Undefined, Str(<<"x">>)}
Present == {Str(<<"x">>)}
\* classroomLat: missing, null (what JSON makes of the NaN the dashboard
\* sends for an empty field), or the reference latitude.
ClassroomLats == {Undefined, Null, Num(129716)}
ClassroomLngs == {Undefined, Num(775946)}
\* allowedRadius: unset, 0, and the double that calculateDistance yields for
\* the point 100.075 m north of the reference point.
AllowedRadii == {Undefined, Num(0), Num(100076)}

LectureBodies ==
    [subject : Texts, date : Present, lectureNumber : Present,
     classroomLat : ClassroomLats, classroomLng : ClassroomLngs,
     allowedRadius : AllowedRadii]

NoReply == [op |-> "none"]

\* QRCode.toDataURL(...), awaited by a handler after its database call: it
\* resolves, or it rejects and the handler's catch block answers 500.  The
\* rest of the handler touches nothing but the response, so it is taken in
\* the same step as the part before the await.
QrRendered == {TRUE, FALSE}

-----------------------------------------------------------------------------
(* src/middleware/auth.js *)

\* String.prototype.split(' '): the pieces between the spaces.  A string of
\* the model is a sequence of pieces of text, a space being a piece.
RECURSIVE split(_)
split(s) ==
    LET spaces == {i \in 1..Len(s) : s[i] = " "}
    IN  IF spaces = {}
        THEN <<s>>
        ELSE <<SubSeq(s, 1, Min(spaces) - 1)>>
                \o split(SubSeq(s, Min(spaces) + 1, Len(s)))

\* Faulty variant of jwtVerify: jwt.decode, which reads the payload of any
\* well-formed token and checks neither signature nor expiry.
jwtVerify_Decode(token) ==
    CASE token = Str(<<"jwt-1">>) -> [err |-> Null, decoded |-> [id |-> 1]]
      [] token = Str(<<"jwt-2">>) -> [err |-> Null, decoded |-> [id |-> 2]]
      [] token = Str(<<"jwt-3-expired">>) -> [err |-> Null, decoded |-> [id |-> 3]]
      [] OTHER -> [err |-> Str(<<"JsonWebTokenError">>), decoded |-> Undefined]

\* jwt.verify(token, JWT_SECRET, callback): what the callback is called
\* with.  "jwt-1" and "jwt-2" are the tokens generateToken signed for the
\* teachers 1 and 2, still valid; "jwt-3-expired" was signed for a teacher 3
\* and has expired; every other text fails to verify.
jwtVerify(token) ==
    CASE token = Str(<<"jwt-1">>) -> [err |-> Null, decoded |-> [id |-> 1]]
      [] token = Str(<<"jwt-2">>) -> [err |-> Null, decoded |-> [id |-> 2]]
      [] token = Str(<<"jwt-3-expired">>) ->
            [err |-> Str(<<"TokenExpiredError">>), decoded |-> Undefined]
      [] OTHER -> [err |-> Str(<<"JsonWebTokenError">>), decoded |-> Undefined]

\* authHeader && authHeader.split(' ')[1]
bearerToken(authHeader) ==
    IF ~Truthy(authHeader)
    THEN authHeader
    ELSE IF Len(split(authHeader.s)) >= 2
         THEN Str(split(authHeader.s)[2])
         ELSE Undefined

\* authenticateToken(req, res, next): the responses it sends, whether it
\* calls next(), and the req.teacher it sets.
authenticateToken(authHeader) ==
    LET token == bearerToken(authHeader)
    IN  IF ~Truthy(token)
        THEN [responses |-> <<[status |-> 401, error |-> "Access token required"]>>,
              next |-> FALSE, teacher |-> Undefined]
        ELSE IF jwtVerify(token).err # Null
        THEN [responses |-> <<[status |-> 403, error |-> "Invalid or expired token"]>>,
              next |-> FALSE, teacher |-> Undefined]
        ELSE [responses |-> <<>>, next |-> TRUE, teacher |-> jwtVerify(token).decoded]

\* A request to a protected route that authenticateToken answers itself: the
\* handler is not called.
Rejected(authHeader) ==
    LET a == authenticateToken(authHeader)
    IN  /\ reply = NoReply
        /\ ~a.next
        /\ reply' = [op |-> "auth", authorization |-> authHeader,
                     status |-> a.responses[1].status,
                     error |-> a.responses[1].error,
                     responses |-> Len(a.responses)]
        /\ UNCHANGED <<lectures, attendance, now, ticks, page, uuids, superseded, disk,
                       awaiting>>

-----------------------------------------------------------------------------
(* src/routes/auth.js, lecture routes, continued *)

\* GET /api/lectures
GetLectures(teacher) ==
    /\ reply = NoReply
    /\ reply' = [op |-> "lectures", teacher |-> teacher, status |-> 200,
                 lectures |-> getLecturesByTeacher(teacher)]
    /\ UNCHANGED <<lectures, attendance, now, ticks, page, uuids, superseded, disk,
                   awaiting>>

\* POST /api/lectures, line 155: a required field is missing.
lectureInvalid(body) ==
    \/ ~Truthy(body.subject) \/ ~Truthy(body.date) \/ ~Truthy(body.lectureNumber)
    \/ body.classroomLat = Undefined \/ body.classroomLng = Undefined

\* Lines 155-159: the 400.
lectureBadRequest ==
    [op |-> "create", status |-> 400,
     error |-> "Subject, date, lecture number, and classroom coordinates are required"]

\* Lines 162-176, the part of the handler before its await: the binding is
\* drawn and the lecture is created.
LectureWrite(teacher, body, saved) ==
    LET qr == generateQRData
    IN  /\ Len(lectures) < MaxLectures
        /\ lectures' = createLecture(
                [teacher_id |-> teacher,
                 subject |-> body.subject,
                 date |-> body.date,
                 lecture_number |-> body.lectureNumber,
                 qr_token |-> qr.token,
                 qr_expires_at |-> qr.expiresAt,
                 classroom_lat |-> body.classroomLat,
                 classroom_lng |-> body.classroomLng,
                 allowed_radius |-> IF Truthy(body.allowedRadius)
                                    THEN body.allowedRadius
                                    ELSE Num(100 * 1000)])
        /\ uuids' = uuids + 1
        /\ disk' = save(saved, lectures', attendance)
        /\ UNCHANGED <<attendance, now, ticks, page, superseded>>

\* What the handler holds across its await (line 179): the token it drew.
lectureHolds == [kind |-> "create", token |-> generateQRData.token]

\* Lines 179-192, the part of the handler after its await: the response.
lectureResponse(c, rendered) ==
    IF rendered
    THEN [op |-> "create", status |-> 201, error |-> "",
          token |-> c.token,
          expiresIn |-> QR_EXPIRY_MINUTES * 60]
    ELSE [op |-> "create", status |-> 500, error |-> "Server error"]

\* POST /api/lectures, with no other handler running during its await.
PostLecture(teacher, body, rendered, saved) ==
    /\ reply = NoReply
    /\ IF lectureInvalid(body)
       THEN /\ reply' = lectureBadRequest
            /\ UNCHANGED <<lectures, attendance, now, ticks, page, uuids, superseded, disk>>
       ELSE /\ LectureWrite(teacher, body, saved)
            /\ reply' = lectureResponse(lectureHolds, rendered)
    /\ UNCHANGED awaiting

\* POST /api/lectures up to its await.
BeginLecture(teacher, body, saved) ==
    /\ reply = NoReply
    /\ IF lectureInvalid(body)
       THEN /\ reply' = lectureBadRequest
            /\ UNCHANGED <<lectures, attendance, now, ticks, page, uuids, superseded, disk,
                           awaiting>>
       ELSE /\ Len(awaiting) < MaxAwaiting
            /\ LectureWrite(teacher, body, saved)
            /\ awaiting' = Append(awaiting, lectureHolds)
            /\ UNCHANGED reply

\* Faulty variant of regenerateFound: a lecture whose token has not expired
\* is treated as not found.
regenerateFound_OnlyExpired(teacher, id) ==
    LET lecture == getLectureById(id)
    IN  /\ lecture # Null
        /\ lecture.teacher_id = teacher
        /\ NewDate(lecture.qr_expires_at) <= now

\* POST /api/lectures/:id/regenerate-qr, lines 238-242: the lecture is there
\* and the teacher owns it.
regenerateFound(teacher, id) ==
    LET lecture == getLectureById(id)
    IN  lecture # Null /\ lecture.teacher_id = teacher

\* Lines 244-248, the part of the handler before its await: the new binding
\* is drawn and written.
RegenerateWrite(id, saved) ==
    LET lecture == getLectureById(id)
        qr == generateQRData
    IN  /\ lectures' = updateLectureQR(id, qr.token, qr.expiresAt)
        /\ uuids' = uuids + 1
        /\ superseded' = superseded \cup
               {[id |-> id, token |-> lecture.qr_token,
                 expiresAt |-> lecture.qr_expires_at]}
        /\ disk' = save(saved, lectures', attendance)
        /\ UNCHANGED <<attendance, now, ticks, page>>

\* What the handler holds across its await (line 251): the request's lecture
\* id and teacher, and the token and expiresAt it drew.
regenerateHolds(teacher, id) ==
    [kind |-> "regenerate", id |-> id, teacher |-> teacher,
     token |-> generateQRData.token, expiresAt |-> generateQRData.expiresAt]

\* Lines 251-265, the part of the handler after its await: the response.
regenerateResponse(c, rendered) ==
    IF rendered
    THEN [op |-> "regenerate", id |-> c.id, teacher |-> c.teacher,
          status |-> 200, error |-> "",
          token |-> c.token, expiresAt |-> c.expiresAt,
          expiresIn |-> QR_EXPIRY_MINUTES * 60]
    ELSE [op |-> "regenerate", id |-> c.id, teacher |-> c.teacher,
          status |-> 500, error |-> "Server error"]

\* Lines 238-242: the 404 of a lecture that is not there or not the teacher's.
regenerateNotFound(teacher, id) ==
    [op |-> "regenerate", id |-> id, teacher |-> teacher,
     status |-> 404, error |-> "Lecture not found"]

\* POST /api/lectures/:id/regenerate-qr, with no other handler running during
\* its await.
PostRegenerateQr(teacher, id, rendered, saved) ==
    /\ reply = NoReply
    /\ IF ~regenerateFound(teacher, id)
       THEN /\ reply' = regenerateNotFound(teacher, id)
            /\ UNCHANGED <<lectures, attendance, now, ticks, page, uuids, superseded, disk>>
       ELSE /\ RegenerateWrite(id, saved)
            /\ reply' = regenerateResponse(regenerateHolds(teacher, id), rendered)
    /\ UNCHANGED awaiting

\* POST /api/lectures/:id/regenerate-qr up to its await.
BeginRegenerateQr(teacher, id, saved) ==
    /\ reply = NoReply
    /\ IF ~regenerateFound(teacher, id)
       THEN /\ reply' = regenerateNotFound(teacher, id)
            /\ UNCHANGED <<lectures, attendance, now, ticks, page, uuids, superseded, disk,
                           awaiting>>
       ELSE /\ Len(awaiting) < MaxAwaiting
            /\ RegenerateWrite(id, saved)
            /\ awaiting' = Append(awaiting, regenerateHolds(teacher, id))
            /\ UNCHANGED reply

\* DELETE /api/lectures/:id
DeleteLecture(teacher, id, saved) ==
    LET r == deleteLecture(id, teacher)
    IN  /\ reply = NoReply
        /\ lectures' = r.lectures
        /\ attendance' = r.attendance
        /\ disk' = IF r.deleted THEN save(saved, lectures', attendance') ELSE disk
        /\ reply' = IF ~r.deleted
                    THEN [op |-> "delete", id |-> id, teacher |-> teacher,
                          status |-> 404, error |-> "Lecture not found"]
                    ELSE [op |-> "delete", id |-> id, teacher |-> teacher,
                          status |-> 200, error |-> ""]
        /\ UNCHANGED <<now, ticks, page, uuids, superseded, awaiting>>

-----------------------------------------------------------------------------
(* src/routes/auth.js, attendance routes (lines 289-491) *)

\* The fields of a mark-attendance body.  A token is absent or one of the
\* uuids (one not drawn so far is a token that does not exist); a name is
\* absent or a string; a roll number is absent, a string, or a number (JSON
\* carries either); a latitude is absent, null, a non-numeric string, or a
\* number.
Tokens == {Undefined} \cup {Str(<<"uuid-", ToString(k)>>) : k \in 1..MaxUuid}
StudentNames == {Undefined, Str(<<" ", "x">>)}
RollNumbers ==
    {Undefined, Str(<<"A", "1">>), Str(<<"a", "1", " ">>), Str(<<" ">>), Num(7)}
StudentLats == {Undefined, Null, Str(<<"x">>), Num(129716), Num(129725)}
StudentLngs == {Undefined, Num(775946)}

MarkBodies ==
    [token : Tokens, studentName : StudentNames, rollNumber : RollNumbers,
     latitude : StudentLats, longitude : StudentLngs]

\* A response of POST /api/attendance/mark: status and error message, the
\* figures the 403 message quotes, and the record createAttendance stored.
Response(status, error) ==
    [status |-> status, error |-> error, distance |-> Undefined,
     allowed |-> Undefined, created |-> <<>>]

\* Faulty variant of markTokenExpired: expiresAt < now.
markTokenExpired_Strict(lecture) == NewDate(lecture.qr_expires_at) < now

\* expiresAt <= now, in POST /api/attendance/mark
markTokenExpired(lecture) == NewDate(lecture.qr_expires_at) <= now

\* Faulty variant of verifyTokenExpired: expiresAt < now.
verifyTokenExpired_Strict(lecture) == NewDate(lecture.qr_expires_at) < now

\* expiresAt <= now, in GET /api/attendance/verify-token/:token
verifyTokenExpired(lecture) == NewDate(lecture.qr_expires_at) <= now

\* Faulty variant of normalizedRollOf: rollNumber.trim()
normalizedRollOf_NoUpperCase(rollNumber) == Str(trim(rollNumber.s))

\* normalizedRoll = rollNumber.trim().toUpperCase()
normalizedRollOf(rollNumber) == Str(toUpperCase(trim(rollNumber.s)))

\* latitude !== undefined && longitude !== undefined
locationProvided(latitude, longitude) ==
    latitude # Undefined /\ longitude # Undefined

\* Faulty variant of commitAttendance: the name is stored as submitted.
commitAttendance_RawName(lecture, studentName, normalizedRoll, studentLat, studentLng, locationStatus) ==
    IF studentName.t # "string"
    THEN Response(500, "Server error while marking attendance")
    ELSE [Response(201, "") EXCEPT !.created =
            <<createAttendance(
                [lecture_id |-> lecture.id,
                 student_name |-> studentName,
                 roll_number |-> normalizedRoll,
                 location_lat |-> studentLat,
                 location_lng |-> studentLng,
                 location_status |-> locationStatus])>>]

\* Lines 365-384: createAttendance and the 201 response.  studentName.trim()
\* throws when the name is no string, and the catch block answers 500.
commitAttendance(lecture, studentName, normalizedRoll, studentLat, studentLng, locationStatus) ==
    IF studentName.t # "string"
    THEN Response(500, "Server error while marking attendance")
    ELSE [Response(201, "") EXCEPT !.created =
            <<createAttendance(
                [lecture_id |-> lecture.id,
                 student_name |-> Str(trim(studentName.s)),
                 roll_number |-> normalizedRoll,
                 location_lat |-> studentLat,
                 location_lng |-> studentLng,
                 location_status |-> locationStatus])>>]

\* Faulty variant of checkLocation: missing coordinates are reported with the
\* message of the missing required fields.
checkLocation_SameMessage(lecture, body, normalizedRoll) ==
    IF locationProvided(body.latitude, body.longitude)
    THEN
        LET locationCheck == validateLocation(body.latitude, body.longitude,
                                 lecture.classroom_lat, lecture.classroom_lng,
                                 lecture.allowed_radius)
        IN  IF locationCheck.isValid
            THEN commitAttendance(lecture, body.studentName, normalizedRoll,
                                  body.latitude, body.longitude, "verified")
            ELSE [Response(403, "Location mismatch") EXCEPT
                        !.distance = locationCheck.distance,
                        !.allowed = lecture.allowed_radius]
    ELSE Response(400, "Token, student name, and roll number are required")

\* Lines 333-384: the location checks, then the commit.
checkLocation(lecture, body, normalizedRoll) ==
    IF locationProvided(body.latitude, body.longitude)
    THEN
        LET locationCheck == validateLocation(body.latitude, body.longitude,
                                 lecture.classroom_lat, lecture.classroom_lng,
                                 lecture.allowed_radius)
        IN  IF locationCheck.isValid
            THEN commitAttendance(lecture, body.studentName, normalizedRoll,
                                  body.latitude, body.longitude, "verified")
            ELSE [Response(403, "Location mismatch") EXCEPT
                        !.distance = locationCheck.distance,
                        !.allowed = lecture.allowed_radius]
    ELSE Response(400, "Location permission is required to mark attendance. Please enable GPS and try again.")

\* Faulty variant of markAttendance: the duplicate check comes before the
\* expiry check.
markAttendance_DuplicateFirst(body) ==
    IF ~Truthy(body.token) \/ ~Truthy(body.studentName) \/ ~Truthy(body.rollNumber)
    THEN Response(400, "Token, student name, and roll number are required")
    ELSE
    LET lecture == getLectureByToken(body.token) IN
    IF lecture = Undefined
    THEN Response(404, "Invalid QR code")
    ELSE
    IF body.rollNumber.t # "string"
    THEN Response(500, "Server error while marking attendance")
    ELSE
    LET normalizedRoll == normalizedRollOf(body.rollNumber)
        existingAttendance == getAttendanceByLectureAndRoll(lecture.id, normalizedRoll)
    IN
    IF existingAttendance # Undefined
    THEN Response(409, "Attendance already marked for this roll number")
    ELSE
    IF markTokenExpired(lecture)
    THEN Response(410, "QR code has expired. Please ask your teacher to generate a new one.")
    ELSE checkLocation(lecture, body, normalizedRoll)

\* Faulty variant of markAttendance: the roll number is normalized before the
\* expiry check, so that a roll number that is no string throws before it.
markAttendance_NormalizeFirst(body) ==
    IF ~Truthy(body.token) \/ ~Truthy(body.studentName) \/ ~Truthy(body.rollNumber)
    THEN Response(400, "Token, student name, and roll number are required")
    ELSE
    LET lecture == getLectureByToken(body.token) IN
    IF lecture = Undefined
    THEN Response(404, "Invalid QR code")
    ELSE
    IF body.rollNumber.t # "string"
    THEN Response(500, "Server error while marking attendance")
    ELSE
    IF markTokenExpired(lecture)
    THEN Response(410, "QR code has expired. Please ask your teacher to generate a new one.")
    ELSE
    LET normalizedRoll == normalizedRollOf(body.rollNumber)
        existingAttendance == getAttendanceByLectureAndRoll(lecture.id, normalizedRoll)
    IN
    IF existingAttendance # Undefined
    THEN Response(409, "Attendance already marked for this roll number")
    ELSE checkLocation(lecture, body, normalizedRoll)

\* The handler of POST /api/attendance/mark (lines 299-389): its response.
\* rollNumber.trim() throws when the roll number is no string, and the catch
\* block answers 500.
markAttendance(body) ==
    IF ~Truthy(body.token) \/ ~Truthy(body.studentName) \/ ~Truthy(body.rollNumber)
    THEN Response(400, "Token, student name, and roll number are required")
    ELSE
    LET lecture == getLectureByToken(body.token) IN
    IF lecture = Undefined
    THEN Response(404, "Invalid QR code")
    ELSE
    IF markTokenExpired(lecture)
    THEN Response(410, "QR code has expired. Please ask your teacher to generate a new one.")
    ELSE
    IF body.rollNumber.t # "string"
    THEN Response(500, "Server error while marking attendance")
    ELSE
    LET normalizedRoll == normalizedRollOf(body.rollNumber)
        existingAttendance == getAttendanceByLectureAndRoll(lecture.id, normalizedRoll)
    IN
    IF existingAttendance # Undefined
    THEN Response(409, "Attendance already marked for this roll number")
    ELSE checkLocation(lecture, body, normalizedRoll)

\* Faulty variant of PostMark: a duplicate submission stamps the records of
\* the ledger anew.
PostMark_Upsert(body, saved) ==
    LET r == markAttendance(body)
    IN  /\ reply = NoReply
        /\ r.status = 201 => Len(attendance) < MaxAttendance
        /\ attendance' =
              IF r.status = 409
              THEN [i \in 1..Len(attendance) |->
                       [attendance[i] EXCEPT !.marked_at = toISOString(now)]]
              ELSE attendance \o r.created
        /\ disk' = save(saved, lectures, attendance')
        /\ reply' = [op |-> "mark", body |-> body] @@ r
        /\ UNCHANGED <<lectures, now, ticks, page, uuids, superseded, awaiting>>

\* Faulty variant of markSuspends: the handler awaits between its duplicate
\* check and createAttendance.
markSuspends_BeforeAppend == TRUE

\* Whether the handler of POST /api/attendance/mark suspends between its
\* duplicate check (line 327) and createAttendance (line 366).  It does not:
\* the handler is no async function and holds no await, and createAttendance
\* and save() (fs.writeFileSync) are synchronous.
markSuspends == FALSE

\* POST /api/attendance/mark
PostMark(body, saved) ==
    LET r == markAttendance(body)
    IN  /\ reply = NoReply
        /\ r.status = 201 => Len(attendance) < MaxAttendance
        /\ IF markSuspends /\ r.status = 201
           THEN /\ Len(awaiting) < MaxAwaiting
                /\ awaiting' = Append(awaiting,
                                   [kind |-> "mark", body |-> body, r |-> r,
                                    saved |-> saved])
                /\ UNCHANGED <<attendance, disk, reply>>
           ELSE /\ attendance' = attendance \o r.created
                /\ disk' = IF r.created # <<>>
                           THEN save(saved, lectures, attendance')
                           ELSE disk
                /\ reply' = [op |-> "mark", body |-> body] @@ r
                /\ UNCHANGED awaiting
        /\ UNCHANGED <<lectures, now, ticks, page, uuids, superseded>>

\* A suspended handler runs on: create-lecture and regenerate-qr answer; a
\* mark-attendance (had it suspended) creates the record it holds and answers.
Resume(i, rendered) ==
    LET c == awaiting[i]
        record == [c.r.created[1] EXCEPT !.id = nextId(attendance),
                                         !.marked_at = toISOString(now)]
    IN  /\ reply = NoReply
        /\ awaiting' = SubSeq(awaiting, 1, i - 1) \o SubSeq(awaiting, i + 1, Len(awaiting))
        /\ IF c.kind \in {"create", "regenerate"}
           THEN /\ reply' = IF c.kind = "create"
                           THEN lectureResponse(c, rendered)
                           ELSE regenerateResponse(c, rendered)
                /\ UNCHANGED <<attendance, disk>>
           ELSE /\ Len(attendance) < MaxAttendance
                /\ attendance' = Append(attendance, record)
                /\ disk' = save(c.saved, lectures, attendance')
                /\ reply' = [op |-> "mark", body |-> c.body]
                                @@ [c.r EXCEPT !.created = <<record>>]
        /\ UNCHANGED <<lectures, now, ticks, page, uuids, superseded>>

\* Faulty variant of detailRemainingSeconds: Math.max(0, ...) is left out.
detailRemainingSeconds_NoMax(lecture) ==
    (NewDate(lecture.qr_expires_at) - now) \div 1000

\* Math.max(0, Math.floor((expiresAt - now) / 1000)), in GET /api/lectures/:id
detailRemainingSeconds(lecture) ==
    Max({0, (NewDate(lecture.qr_expires_at) - now) \div 1000})

\* Math.floor((expiresAt - now) / 1000), in GET /api/attendance/verify-token/:token
verifyRemainingSeconds(lecture) ==
    (NewDate(lecture.qr_expires_at) - now) \div 1000

\* Faulty variant of GetLecture: isExpired is expiresAt < now.
GetLecture_StrictExpired(teacher, id, rendered) ==
    LET lecture == getLectureById(id)
    IN  /\ reply = NoReply
        /\ reply' =
            IF lecture = Null \/ lecture.teacher_id # teacher
            THEN [op |-> "detail", id |-> id, teacher |-> teacher, status |-> 404,
                  error |-> "Lecture not found"]
            ELSE IF /\ Truthy(lecture.qr_token)
                    /\ NewDate(lecture.qr_expires_at) > now
                    /\ ~rendered
            THEN [op |-> "detail", id |-> id, teacher |-> teacher, status |-> 500,
                  error |-> "Server error"]
            ELSE [op |-> "detail", id |-> id, teacher |-> teacher, status |-> 200,
                  error |-> "", lecture |-> lecture,
                  qrCode |-> IF Truthy(lecture.qr_token)
                                /\ NewDate(lecture.qr_expires_at) > now
                             THEN lecture.qr_token ELSE Null,
                  isExpired |-> NewDate(lecture.qr_expires_at) < now,
                  remainingSeconds |-> detailRemainingSeconds(lecture)]
        /\ UNCHANGED <<lectures, attendance, now, ticks, page, uuids, superseded, disk,
                       awaiting>>

\* GET /api/lectures/:id.  The QR image is rendered (awaited) only while the
\* token is there and not expired; the handler writes nothing.
GetLecture(teacher, id, rendered) ==
    LET lecture == getLectureById(id)
    IN  /\ reply = NoReply
        /\ reply' =
            IF lecture = Null \/ lecture.teacher_id # teacher
            THEN [op |-> "detail", id |-> id, teacher |-> teacher, status |-> 404,
                  error |-> "Lecture not found"]
            ELSE IF /\ Truthy(lecture.qr_token)
                    /\ NewDate(lecture.qr_expires_at) > now
                    /\ ~rendered
            THEN [op |-> "detail", id |-> id, teacher |-> teacher, status |-> 500,
                  error |-> "Server error"]
            ELSE [op |-> "detail", id |-> id, teacher |-> teacher, status |-> 200,
                  error |-> "", lecture |-> lecture,
                  qrCode |-> IF Truthy(lecture.qr_token)
                                /\ NewDate(lecture.qr_expires_at) > now
                             THEN lecture.qr_token ELSE Null,
                  isExpired |-> NewDate(lecture.qr_expires_at) <= now,
                  remainingSeconds |-> detailRemainingSeconds(lecture)]
        /\ UNCHANGED <<lectures, attendance, now, ticks, page, uuids, superseded, disk,
                       awaiting>>

\* GET /api/attendance/verify-token/:token
GetVerifyToken(token) ==
    LET lecture == getLectureByToken(token)
    IN  /\ reply = NoReply
        /\ reply' =
            IF lecture = Undefined
            THEN [op |-> "verify", token |-> token, status |-> 404, valid |-> FALSE,
                  error |-> "Invalid QR code"]
            ELSE IF verifyTokenExpired(lecture)
            THEN [op |-> "verify", token |-> token, status |-> 410, valid |-> FALSE,
                  error |-> "QR code has expired"]
            ELSE [op |-> "verify", token |-> token, status |-> 200, valid |-> TRUE,
                  error |-> "",
                  remainingSeconds |-> verifyRemainingSeconds(lecture)]
        /\ UNCHANGED <<lectures, attendance, now, ticks, page, uuids, superseded, disk,
                       awaiting>>

\* GET /api/attendance/lectures/:id/attendance
GetAttendance(teacher, id) ==
    LET lecture == getLectureById(id)
        records == getAttendanceByLecture(id)
    IN  /\ reply = NoReply
        /\ reply' =
            IF lecture = Null \/ lecture.teacher_id # teacher
            THEN [op |-> "list", id |-> id, teacher |-> teacher, status |-> 404,
                  error |-> "Lecture not found"]
            ELSE [op |-> "list", id |-> id, teacher |-> teacher, status |-> 200,
                  error |-> "", totalStudents |-> Len(records),
                  attendance |-> records]
        /\ UNCHANGED <<lectures, attendance, now, ticks, page, uuids, superseded, disk,
                       awaiting>>

\* GET /api/attendance/lectures/:id/attendance/export.  The CSV is a header
\* line and the rows, one per record: roll number, name, time, location
\* status; the file name quotes subject, date and lecture number.
GetExport(teacher, id) ==
    LET lecture == getLectureById(id)
        records == getAttendanceByLecture(id)
    IN  /\ reply = NoReply
        /\ reply' =
            IF lecture = Null \/ lecture.teacher_id # teacher
            THEN [op |-> "export", id |-> id, teacher |-> teacher, status |-> 404,
                  error |-> "Lecture not found"]
            ELSE [op |-> "export", id |-> id, teacher |-> teacher, status |-> 200,
                  error |-> "",
                  filename |-> <<lecture.subject, lecture.date, lecture.lecture_number>>,
                  csv |-> [i \in 1..Len(records) |->
                              <<records[i].roll_number, records[i].student_name,
                                NewDate(records[i].marked_at),
                                records[i].location_status>>]]
        /\ UNCHANGED <<lectures, attendance, now, ticks, page, uuids, superseded, disk,
                       awaiting>>

-----------------------------------------------------------------------------
(* src/public/js/student.js: the student page.                              *)
(*                                                                         *)
(* page.state is the panel shown (loadingState, invalidState, formState,    *)
(* successState, or none before DOMContentLoaded); timerInterval is null,   *)
(* a running interval, or one that clearInterval has cleared; locating and  *)
(* marks are the promises of getCurrentLocation and AttendanceAPI.mark the  *)
(* page is waiting for.  The states of the submit button and the texts are  *)
(* left out: a submit event may be dispatched at any moment once the        *)
(* listener is registered.                                                  *)

MaxLocating == 2
MaxMarks == 2

\* Lines 7-10: the state of the script before DOMContentLoaded.
Unloaded ==
    [state |-> "none", qrToken |-> Null, listening |-> FALSE,
     verifying |-> FALSE, studentLocation |-> Null, timerInterval |-> "null",
     seconds |-> 0, locating |-> <<>>, retry |-> FALSE, marks |-> <<>>]

\* The token in the page's URL: none, or the token of a QR code.
UrlTokens == {Null, Str(<<"uuid-", "1">>)}

\* What AttendanceAPI.verifyToken answers: valid with the seconds left, not
\* valid, or a rejection (apiRequest throws on a 404, a 410 or no network).
RemainingSeconds == {0, 1, 2}
VerifyOutcomes ==
    {[kind |-> "valid", remainingSeconds |-> n] : n \in RemainingSeconds}
        \cup {[kind |-> "invalid"], [kind |-> "error"]}

\* What getCurrentLocation resolves with; Null stands for its rejection.
Positions ==
    {Null, [latitude |-> Num(129716), longitude |-> Num(775946)]}

\* clearInterval(timerInterval)
clearInterval(p) ==
    [p EXCEPT !.timerInterval = IF @ = "running" THEN "cleared" ELSE @]

showLoading(p) == [p EXCEPT !.state = "loading"]
showInvalid(p) == clearInterval([p EXCEPT !.state = "invalid"])
showForm(p) == [p EXCEPT !.state = "form"]
showSuccess(p) == [p EXCEPT !.state = "success"]

\* startTimer(seconds), lines 73-76
startTimer(p, seconds) ==
    [p EXCEPT !.timerInterval = "running", !.seconds = seconds]

\* The callback of setInterval, lines 77-85.
timerCallback(p) ==
    LET q == [p EXCEPT !.seconds = @ - 1]
    IN  IF q.seconds <= 0
        THEN showInvalid(clearInterval(q))
        ELSE q

\* requestLocation up to its await, lines 104-108.
requestLocation(p) ==
    [showForm(p) EXCEPT !.locating = Append(@, "request")]

\* retryLocation up to its await, lines 146-149.
retryLocation(p) ==
    [p EXCEPT !.locating = Append(@, "retry")]

\* requestLocation and retryLocation after their await: the location is
\* kept, or the Retry button is put into the form.
located(p, position) ==
    IF position # Null
    THEN [p EXCEPT !.studentLocation = position]
    ELSE [p EXCEPT !.retry = TRUE]

\* Faulty variant of handleSubmit: the request is sent with
\* studentLocation?.latitude and studentLocation?.longitude, whether or not
\* there is a location.
handleSubmit_OptionalLocation(p) ==
    [p EXCEPT !.marks =
        Append(@, [token |-> p.qrToken,
                   latitude |-> IF p.studentLocation = Null THEN Undefined
                                ELSE p.studentLocation.latitude,
                   longitude |-> IF p.studentLocation = Null THEN Undefined
                                 ELSE p.studentLocation.longitude])]

\* handleSubmit up to its await, lines 167-189: without a location a toast,
\* otherwise the request is sent.
handleSubmit(p) ==
    IF p.studentLocation = Null
    THEN p
    ELSE [p EXCEPT !.marks =
            Append(@, [token |-> p.qrToken,
                       latitude |-> p.studentLocation.latitude,
                       longitude |-> p.studentLocation.longitude])]

\* Faulty variant of markResolved: the timer is not stopped.
markResolved_TimerRuns(p) == showSuccess(p)

\* handleSubmit after its await, lines 191-195.
markResolved(p) == showSuccess(clearInterval(p))

\* handleSubmit's catch block, lines 197-201: a toast.
markRejected(p) == p

\* A sequence without its i-th element.
without(items, i) == SubSeq(items, 1, i - 1) \o SubSeq(items, i + 1, Len(items))

\* What the page leaves alone: the server.
ServerUnchanged ==
    UNCHANGED <<lectures, attendance, now, ticks, uuids, superseded, reply, disk,
                awaiting>>

\* Lines 16-35: the page is loaded.
DOMContentLoaded(token) ==
    /\ page.state = "none"
    /\ page' = IF ~Truthy(token)
               THEN showInvalid([page EXCEPT !.qrToken = token])
               ELSE [showLoading(page) EXCEPT !.qrToken = token,
                                              !.verifying = TRUE,
                                              !.listening = TRUE]
    /\ ServerUnchanged

\* verifyAndInit after its first await, lines 47-61.
VerifyResolved(data) ==
    /\ page.verifying
    /\ page' = IF data.kind = "valid"
               THEN requestLocation(
                        startTimer([page EXCEPT !.verifying = FALSE],
                                   data.remainingSeconds))
               ELSE showInvalid([page EXCEPT !.verifying = FALSE])
    /\ ServerUnchanged

\* The i-th pending getCurrentLocation settles.
LocationSettled(i, position) ==
    /\ i \in 1..Len(page.locating)
    /\ page' = located([page EXCEPT !.locating = without(@, i)], position)
    /\ ServerUnchanged

\* The student presses Retry, which is in the form once a location request
\* has failed.
RetryPressed ==
    /\ page.retry
    /\ page.state = "form"
    /\ Len(page.locating) < MaxLocating
    /\ page' = retryLocation(page)
    /\ ServerUnchanged

\* A submit event reaches the form.
Submit ==
    /\ page.listening
    /\ Len(page.marks) < MaxMarks
    /\ page' = handleSubmit(page)
    /\ ServerUnchanged

\* The i-th pending AttendanceAPI.mark settles: 201, or an error.
MarkSettled(i, ok) ==
    /\ i \in 1..Len(page.marks)
    /\ page' = IF ok
               THEN markResolved([page EXCEPT !.marks = without(@, i)])
               ELSE markRejected([page EXCEPT !.marks = without(@, i)])
    /\ ServerUnchanged

\* A second passes and the interval fires.
TimerFires ==
    /\ page.timerInterval = "running"
    /\ page' = timerCallback(page)
    /\ ServerUnchanged

NextPage ==
    \/ \E token \in UrlTokens : DOMContentLoaded(token)
    \/ \E data \in VerifyOutcomes : VerifyResolved(data)
    \/ \E i \in 1..MaxLocating, position \in Positions : LocationSettled(i, position)
    \/ RetryPressed
    \/ Submit
    \/ \E i \in 1..MaxMarks, ok \in BOOLEAN : MarkSettled(i, ok)
    \/ TimerFires

-----------------------------------------------------------------------------
(* The clock and the specification. *)

\* The advances of the clock, in milliseconds: half the life of a token, so
\* that the clock reaches an instant before an expiry instant and then the
\* expiry instant itself.
ClockSteps == {(QR_EXPIRY_MINUTES * 60 * 1000) \div 2}

Tick(d) ==
    /\ reply = NoReply
    /\ ticks < MaxTicks
    /\ now' = now + d
    /\ ticks' = ticks + 1
    /\ reply' = NoReply
    /\ UNCHANGED <<lectures, attendance, uuids, superseded, disk, awaiting, page>>

Init ==
    /\ lectures = <<>>
    /\ attendance = <<>>
    /\ now = 0
    /\ ticks = 0
    /\ uuids = 0
    /\ superseded = {}
    /\ reply = NoReply
    /\ disk = [lectures |-> <<>>, attendance |-> <<>>]
    /\ awaiting = <<>>
    /\ page = Unloaded

\* The server process is restarted between two requests: the Database
\* constructor loads data.json (src/README.md:141-160), and the arrays are
\* what JSON.parse makes of the file.
Restart ==
    /\ reply = NoReply
    /\ awaiting = <<>>
    /\ lectures' = disk.lectures
    /\ attendance' = disk.attendance
    /\ UNCHANGED <<now, ticks, page, uuids, superseded, reply, disk, awaiting>>

\* The response of a request is read off the wire before the next request is
\* handled (every handler waits for reply = NoReply).
ResponseSent ==
    /\ reply # NoReply
    /\ reply' = NoReply
    /\ UNCHANGED <<lectures, attendance, now, ticks, page, uuids, superseded, disk, awaiting>>

\* A request is accepted only when no response is on the wire; the guard is
\* repeated in front of each handler's parameters.  A request that would
\* draw a uuid is accepted while fewer than MaxUuid have been drawn.  In this specification the
\* requests are handled one after the other and every save() succeeds, so
\* that data.json holds what the arrays hold.
Next ==
    \/ /\ reply = NoReply
       /\ \E teacher \in Teachers, body \in LectureBodies, rendered \in QrRendered,
             saved \in SaveSucceeds :
                /\ ~lectureInvalid(body) => uuids < MaxUuid
                /\ PostLecture(teacher, body, rendered, saved)
    \/ /\ reply = NoReply
       /\ \E teacher \in Teachers, id \in LectureIds, rendered \in QrRendered,
             saved \in SaveSucceeds :
                /\ regenerateFound(teacher, id) => uuids < MaxUuid
                /\ PostRegenerateQr(teacher, id, rendered, saved)
    \/ /\ reply = NoReply
       /\ \E teacher \in Teachers, id \in LectureIds, saved \in SaveSucceeds :
                DeleteLecture(teacher, id, saved)
    \/ /\ reply = NoReply
       /\ \E body \in MarkBodies, saved \in SaveSucceeds : PostMark(body, saved)
    \/ /\ reply = NoReply
       /\ \E token \in Tokens \ {Undefined} : GetVerifyToken(token)
    \/ /\ reply = NoReply
       /\ \E d \in ClockSteps : Tick(d)
    \/ ResponseSent

Spec == Init /\ [][Next]_vars

-----------------------------------------------------------------------------
(* Two teachers.  The requests are handled one after the other and every    *)
(* save() succeeds, as in Spec; there are two authenticated teachers, the   *)
(* teacher's list of a lecture's attendance, and creation requests whose    *)
(* allowedRadius is unset, 0, negative, a fraction of a metre or a whole    *)
(* number of metres.  The students' submissions all carry their fields.     *)

OwnerTeachers == {1, 2}

\* allowedRadius: unset, 0, -5 m, 1.5 m and 50 m.
OwnerRadii == {Undefined, Num(0), Num(0 - 5000), Num(1500), Num(50000)}

OwnerLectureBodies ==
    [subject : Present, date : Present, lectureNumber : Present,
     classroomLat : {Num(129716)}, classroomLng : {Num(775946)},
     allowedRadius : OwnerRadii]

OwnerMarkBodies ==
    [token : Tokens \ {Undefined}, studentName : {Str(<<" ", "x">>)},
     rollNumber : {Str(<<"A", "1">>), Str(<<"a", "1", " ">>), Str(<<"B", "2">>)},
     latitude : {Num(129716), Num(129725)}, longitude : {Num(775946)}]

NextOwners ==
    \/ /\ reply = NoReply
       /\ \E teacher \in OwnerTeachers, body \in OwnerLectureBodies,
             rendered \in QrRendered, saved \in SaveSucceeds :
                /\ ~lectureInvalid(body) => uuids < MaxUuid
                /\ PostLecture(teacher, body, rendered, saved)
    \/ /\ reply = NoReply
       /\ \E teacher \in OwnerTeachers, id \in LectureIds, rendered \in QrRendered,
             saved \in SaveSucceeds :
                /\ regenerateFound(teacher, id) => uuids < MaxUuid
                /\ PostRegenerateQr(teacher, id, rendered, saved)
    \/ /\ reply = NoReply
       /\ \E teacher \in OwnerTeachers, id \in LectureIds, saved \in SaveSucceeds :
                DeleteLecture(teacher, id, saved)
    \/ /\ reply = NoReply
       /\ \E body \in OwnerMarkBodies, saved \in SaveSucceeds : PostMark(body, saved)
    \/ /\ reply = NoReply
       /\ \E token \in Tokens \ {Undefined} : GetVerifyToken(token)
    \/ /\ reply = NoReply
       /\ \E teacher \in OwnerTeachers, id \in LectureIds : GetAttendance(teacher, id)
    \/ /\ reply = NoReply
       /\ \E d \in ClockSteps : Tick(d)
    \/ ResponseSent

SpecOwners == Init /\ [][NextOwners]_vars

-----------------------------------------------------------------------------
(* Storage that may fail.  The requests are handled one after the other;    *)
(* each save() writes data.json or fails to (the disk is full, the file is  *)
(* read-only), in which case save() logs the error and returns.            *)

StorageLectureBodies ==
    [subject : Present, date : Present, lectureNumber : Present,
     classroomLat : {Num(129716)}, classroomLng : {Num(775946)},
     allowedRadius : {Undefined}]

StorageMarkBodies ==
    [token : Tokens \ {Undefined}, studentName : {Str(<<" ", "x">>)},
     rollNumber : {Str(<<"A", "1">>), Str(<<"B", "2">>)},
     latitude : {Num(129716), Num(129734)}, longitude : {Num(775946)}]

NextStorage ==
    \/ /\ reply = NoReply
       /\ \E teacher \in Teachers, body \in StorageLectureBodies,
             rendered \in QrRendered, saved \in SaveOutcomes :
                /\ ~lectureInvalid(body) => uuids < MaxUuid
                /\ PostLecture(teacher, body, rendered, saved)
    \/ /\ reply = NoReply
       /\ \E teacher \in Teachers, id \in LectureIds, rendered \in QrRendered,
             saved \in SaveOutcomes :
                /\ regenerateFound(teacher, id) => uuids < MaxUuid
                /\ PostRegenerateQr(teacher, id, rendered, saved)
    \/ /\ reply = NoReply
       /\ \E teacher \in Teachers, id \in LectureIds, saved \in SaveOutcomes :
                DeleteLecture(teacher, id, saved)
    \/ /\ reply = NoReply
       /\ \E body \in StorageMarkBodies, saved \in SaveOutcomes : PostMark(body, saved)
    \/ /\ reply = NoReply
       /\ \E d \in ClockSteps : Tick(d)
    \/ ResponseSent

SpecStorage == Init /\ [][NextStorage]_vars

-----------------------------------------------------------------------------
(* Concurrent requests.  Node runs one handler at a time up to its next     *)
(* await; while create-lecture or regenerate-qr awaits QRCode.toDataURL,    *)
(* other requests are accepted and handled, and suspended handlers run on   *)
(* in any order.  Every save() succeeds.                                    *)

ConcurrentLectureBodies ==
    [subject : Present, date : Present, lectureNumber : Present,
     classroomLat : {Num(129716)}, classroomLng : {Num(775946)},
     allowedRadius : {Undefined}]

ConcurrentMarkBodies ==
    [token : Tokens \ {Undefined}, studentName : {Str(<<" ", "x">>)},
     rollNumber : {Str(<<"A", "1">>), Str(<<"a", "1", " ">>), Str(<<"B", "2">>)},
     latitude : {Num(129716)}, longitude : {Num(775946)}]

NextConcurrent ==
    \/ /\ reply = NoReply
       /\ \E teacher \in Teachers, body \in ConcurrentLectureBodies,
             saved \in SaveSucceeds :
                /\ ~lectureInvalid(body) => uuids < MaxUuid
                /\ BeginLecture(teacher, body, saved)
    \/ /\ reply = NoReply
       /\ \E teacher \in Teachers, id \in LectureIds, saved \in SaveSucceeds :
                /\ regenerateFound(teacher, id) => uuids < MaxUuid
                /\ BeginRegenerateQr(teacher, id, saved)
    \/ /\ reply = NoReply
       /\ \E i \in 1..Len(awaiting), rendered \in QrRendered : Resume(i, rendered)
    \/ /\ reply = NoReply
       /\ \E teacher \in Teachers, id \in LectureIds, saved \in SaveSucceeds :
                DeleteLecture(teacher, id, saved)
    \/ /\ reply = NoReply
       /\ \E body \in ConcurrentMarkBodies, saved \in SaveSucceeds :
                PostMark(body, saved)
    \/ /\ reply = NoReply
       /\ \E token \in Tokens \ {Undefined} : GetVerifyToken(token)
    \/ /\ reply = NoReply
       /\ \E d \in ClockSteps : Tick(d)
    \/ ResponseSent

SpecConcurrent == Init /\ [][NextConcurrent]_vars

-----------------------------------------------------------------------------
(* Reissues.  The requests are handled one after the other and every save() *)
(* succeeds; there are two teachers, and three uuids may be drawn, so that  *)
(* a token is reissued while two lectures exist and a lecture's token is    *)
(* reissued twice.                                                          *)

MaxReissueUuid == 3

ReissueTokens == {Str(<<"uuid-", ToString(k)>>) : k \in 1..MaxReissueUuid}

ReissueLectureBodies ==
    [subject : Present, date : Present, lectureNumber : Present,
     classroomLat : {Num(129716)}, classroomLng : {Num(775946)},
     allowedRadius : {Undefined}]

ReissueMarkBodies ==
    [token : ReissueTokens, studentName : {Str(<<" ", "x">>)},
     rollNumber : {Str(<<"A", "1">>)},
     latitude : {Num(129716)}, longitude : {Num(775946)}]

NextReissue ==
    \/ /\ reply = NoReply
       /\ \E teacher \in OwnerTeachers, body \in ReissueLectureBodies,
             rendered \in QrRendered, saved \in SaveSucceeds :
                /\ ~lectureInvalid(body) => uuids < MaxReissueUuid
                /\ PostLecture(teacher, body, rendered, saved)
    \/ /\ reply = NoReply
       /\ \E teacher \in OwnerTeachers, id \in LectureIds, rendered \in QrRendered,
             saved \in SaveSucceeds :
                /\ regenerateFound(teacher, id) => uuids < MaxReissueUuid
                /\ PostRegenerateQr(teacher, id, rendered, saved)
    \/ /\ reply = NoReply
       /\ \E teacher \in OwnerTeachers, id \in LectureIds, saved \in SaveSucceeds :
                DeleteLecture(teacher, id, saved)
    \/ /\ reply = NoReply
       /\ \E body \in ReissueMarkBodies, saved \in SaveSucceeds : PostMark(body, saved)
    \/ /\ reply = NoReply
       /\ \E token \in ReissueTokens : GetVerifyToken(token)
    \/ /\ reply = NoReply
       /\ \E teacher \in OwnerTeachers, id \in LectureIds : GetAttendance(teacher, id)
    \/ /\ reply = NoReply
       /\ \E d \in ClockSteps : Tick(d)
    \/ ResponseSent

SpecReissue == Init /\ [][NextReissue]_vars

-----------------------------------------------------------------------------
(* A fine clock.  The requests are handled one after the other and every    *)
(* save() succeeds; the clock advances by half a second short of a token's  *)
(* life, by half a second and by 0.7 s, so that requests are handled a      *)
(* fraction of a second before an expiry instant, at it, and a fraction of  *)
(* a second after it; the teacher reads the lecture's detail.               *)

FineClockSteps == {QR_EXPIRY_MINUTES * 60 * 1000 - 500, 500, 700}

NextClock ==
    \/ /\ reply = NoReply
       /\ \E teacher \in Teachers, body \in ReissueLectureBodies,
             rendered \in QrRendered, saved \in SaveSucceeds :
                /\ ~lectureInvalid(body) => uuids < MaxUuid
                /\ PostLecture(teacher, body, rendered, saved)
    \/ /\ reply = NoReply
       /\ \E teacher \in Teachers, id \in LectureIds, rendered \in QrRendered,
             saved \in SaveSucceeds :
                /\ regenerateFound(teacher, id) => uuids < MaxUuid
                /\ PostRegenerateQr(teacher, id, rendered, saved)
    \/ /\ reply = NoReply
       /\ \E teacher \in Teachers, id \in LectureIds, rendered \in QrRendered :
                GetLecture(teacher, id, rendered)
    \/ /\ reply = NoReply
       /\ \E token \in Tokens \ {Undefined} : GetVerifyToken(token)
    \/ /\ reply = NoReply
       /\ \E d \in FineClockSteps : Tick(d)
    \/ ResponseSent

SpecClock == Init /\ [][NextClock]_vars

-----------------------------------------------------------------------------
(* calculateDistance on its own.  Two points are drawn, each a latitude and *)
(* a longitude as a caller may pass them (a number, or null, a string or    *)
(* undefined, which arithmetic turns into 0 or NaN), and the distances      *)
(* between them are computed in both directions and from each to itself.    *)

PointLats == {Num(lat) : lat \in Latitudes} \cup {Null, Str(<<"x">>)}
PointLngs == {Num(lng) : lng \in Longitudes} \cup {Undefined}
Points == [lat : PointLats, lng : PointLngs]

InitDistance ==
    /\ lectures = <<>>
    /\ attendance = <<>>
    /\ now = 0
    /\ ticks = 0
    /\ uuids = 0
    /\ superseded = {}
    /\ disk = [lectures |-> <<>>, attendance |-> <<>>]
    /\ awaiting = <<>>
    /\ page = Unloaded
    /\ \E a \in Points, b \in Points : reply = [op |-> "points", a |-> a, b |-> b]

Measure ==
    /\ reply.op = "points"
    /\ reply' =
          [op |-> "distance", a |-> reply.a, b |-> reply.b,
           ab |-> calculateDistance(reply.a.lat, reply.a.lng, reply.b.lat, reply.b.lng),
           ba |-> calculateDistance(reply.b.lat, reply.b.lng, reply.a.lat, reply.a.lng),
           aa |-> calculateDistance(reply.a.lat, reply.a.lng, reply.a.lat, reply.a.lng)]
    /\ UNCHANGED <<lectures, attendance, now, ticks, page, uuids, superseded, disk, awaiting>>

NextDistance == Measure

SpecDistance == InitDistance /\ [][NextDistance]_vars

-----------------------------------------------------------------------------
(* The student page on its own: the answers of the server and of the        *)
(* browser's geolocation arrive in any order, each with any outcome.        *)

SpecPage == Init /\ [][NextPage]_vars

-----------------------------------------------------------------------------
(* The vocabulary of the properties.                                        *)
(*                                                                         *)
(* While a response of mark-attendance is on the wire no other handler     *)
(* runs, so lectures and now are what the handler read, and attendance is  *)
(* what it read followed by reply.created.                                 *)

-----------------------------------------------------------------------------
(* Two teachers and every teacher route.  The requests are handled one      *)
(* after the other and every save() succeeds; the lectures differ in date   *)
(* and in lecture number, and each teacher lists the lectures, reads a      *)
(* lecture's detail, its attendance and its export, reissues and deletes,   *)
(* for the lectures of either teacher.                                      *)

IsolationLectureBodies ==
    [subject : Present, date : {Str(<<"x">>), Str(<<"y">>)},
     lectureNumber : {Num(1), Num(2)},
     classroomLat : {Num(129716)}, classroomLng : {Num(775946)},
     allowedRadius : {Undefined}]

IsolationMarkBodies ==
    [token : Tokens \ {Undefined}, studentName : {Str(<<" ", "x">>)},
     rollNumber : {Str(<<"A", "1">>)},
     latitude : {Num(129716)}, longitude : {Num(775946)}]

NextIsolation ==
    \/ /\ reply = NoReply
       /\ \E teacher \in OwnerTeachers, body \in IsolationLectureBodies,
             rendered \in QrRendered, saved \in SaveSucceeds :
                /\ ~lectureInvalid(body) => uuids < MaxUuid
                /\ PostLecture(teacher, body, rendered, saved)
    \/ /\ reply = NoReply
       /\ \E teacher \in OwnerTeachers, id \in LectureIds, rendered \in QrRendered,
             saved \in SaveSucceeds :
                /\ regenerateFound(teacher, id) => uuids < MaxUuid
                /\ PostRegenerateQr(teacher, id, rendered, saved)
    \/ /\ reply = NoReply
       /\ \E teacher \in OwnerTeachers, id \in LectureIds, saved \in SaveSucceeds :
                DeleteLecture(teacher, id, saved)
    \/ /\ reply = NoReply
       /\ \E body \in IsolationMarkBodies, saved \in SaveSucceeds : PostMark(body, saved)
    \/ /\ reply = NoReply
       /\ \E teacher \in OwnerTeachers : GetLectures(teacher)
    \/ /\ reply = NoReply
       /\ \E teacher \in OwnerTeachers, id \in LectureIds, rendered \in QrRendered :
                GetLecture(teacher, id, rendered)
    \/ /\ reply = NoReply
       /\ \E teacher \in OwnerTeachers, id \in LectureIds : GetAttendance(teacher, id)
    \/ /\ reply = NoReply
       /\ \E teacher \in OwnerTeachers, id \in LectureIds : GetExport(teacher, id)
    \/ /\ reply = NoReply
       /\ \E d \in ClockSteps : Tick(d)
    \/ ResponseSent

SpecIsolation == Init /\ [][NextIsolation]_vars

-----------------------------------------------------------------------------
(* The teacher routes behind authenticateToken.  Every request to a teacher *)
(* route carries an Authorization header or none: no header, an empty one,  *)
(* a scheme without a token, a scheme and a token that verifies, one that   *)
(* has expired, one that is no JWT.  The handler runs, in the same step,    *)
(* for the requests that authenticateToken passes on, with the req.teacher  *)
(* it has set.  mark-attendance and verify-token are public.                *)

Authorizations ==
    {Undefined, Str(<<>>), Str(<<"Bearer">>), Str(<<"Bearer", " ">>),
     Str(<<"Bearer", " ", "jwt-1">>), Str(<<"Bearer", " ", "jwt-2">>),
     Str(<<"Bearer", " ", "jwt-3-expired">>), Str(<<"Bearer", " ", "junk">>),
     Str(<<"Basic", " ", "jwt-1">>), Str(<<"jwt-1">>)}

\* The headers that authenticateToken passes on.
Passed == {h \in Authorizations : authenticateToken(h).next}

NextAuth ==
    \/ /\ reply = NoReply
       /\ \E authorization \in Authorizations : Rejected(authorization)
    \/ /\ reply = NoReply
       /\ \E authorization \in Passed, body \in StorageLectureBodies,
             rendered \in QrRendered, saved \in SaveSucceeds :
                /\ ~lectureInvalid(body) => uuids < MaxUuid
                /\ PostLecture(authenticateToken(authorization).teacher.id,
                               body, rendered, saved)
    \/ /\ reply = NoReply
       /\ \E authorization \in Passed, id \in LectureIds, rendered \in QrRendered,
             saved \in SaveSucceeds :
                /\ regenerateFound(authenticateToken(authorization).teacher.id, id)
                      => uuids < MaxUuid
                /\ PostRegenerateQr(authenticateToken(authorization).teacher.id,
                                    id, rendered, saved)
    \/ /\ reply = NoReply
       /\ \E authorization \in Passed, id \in LectureIds, saved \in SaveSucceeds :
                DeleteLecture(authenticateToken(authorization).teacher.id, id, saved)
    \/ /\ reply = NoReply
       /\ \E authorization \in Passed :
                GetLectures(authenticateToken(authorization).teacher.id)
    \/ /\ reply = NoReply
       /\ \E authorization \in Passed, id \in LectureIds, rendered \in QrRendered :
                GetLecture(authenticateToken(authorization).teacher.id, id, rendered)
    \/ /\ reply = NoReply
       /\ \E authorization \in Passed, id \in LectureIds :
                GetAttendance(authenticateToken(authorization).teacher.id, id)
    \/ /\ reply = NoReply
       /\ \E authorization \in Passed, id \in LectureIds :
                GetExport(authenticateToken(authorization).teacher.id, id)
    \/ /\ reply = NoReply
       /\ \E body \in IsolationMarkBodies, saved \in SaveSucceeds : PostMark(body, saved)
    \/ /\ reply = NoReply
       /\ \E token \in Tokens \ {Undefined} : GetVerifyToken(token)
    \/ /\ reply = NoReply
       /\ \E d \in ClockSteps : Tick(d)
    \/ ResponseSent

SpecAuth == Init /\ [][NextAuth]_vars

-----------------------------------------------------------------------------
(* Blank fields.  The requests are handled one after the other and every    *)
(* save() succeeds; the students submit, from inside the classroom, names   *)
(* and roll numbers that are text or nothing but a space.                   *)

BlankMarkBodies ==
    [token : Tokens \ {Undefined},
     studentName : {Str(<<" ">>), Str(<<" ", "x">>)},
     rollNumber : {Str(<<" ">>), Str(<<"a", "1", " ">>)},
     latitude : {Num(129716)}, longitude : {Num(775946)}]

NextBlank ==
    \/ /\ reply = NoReply
       /\ \E teacher \in Teachers, body \in StorageLectureBodies,
             rendered \in QrRendered, saved \in SaveSucceeds :
                /\ ~lectureInvalid(body) => uuids < MaxUuid
                /\ PostLecture(teacher, body, rendered, saved)
    \/ /\ reply = NoReply
       /\ \E teacher \in Teachers, id \in LectureIds, saved \in SaveSucceeds :
                DeleteLecture(teacher, id, saved)
    \/ /\ reply = NoReply
       /\ \E body \in BlankMarkBodies, saved \in SaveSucceeds : PostMark(body, saved)
    \/ /\ reply = NoReply
       /\ \E d \in ClockSteps : Tick(d)
    \/ ResponseSent

SpecBlank == Init /\ [][NextBlank]_vars

-----------------------------------------------------------------------------
(* Restarts.  The requests are handled one after the other and every        *)
(* save() succeeds; the server may be restarted between two requests.  The  *)
(* teacher leaves allowedRadius unset or sends a number too large for a     *)
(* double (1e999), which express.json parses to Infinity; the students      *)
(* submit from the classroom and from 200 m away.                           *)

RestartLectureBodies ==
    [subject : Present, date : Present, lectureNumber : Present,
     classroomLat : {Num(129716)}, classroomLng : {Num(775946)},
     allowedRadius : {Undefined, Infinity}]

RestartMarkBodies ==
    [token : Tokens \ {Undefined}, studentName : {Str(<<" ", "x">>)},
     rollNumber : {Str(<<"A", "1">>), Str(<<"B", "2">>)},
     latitude : {Num(129716), Num(129734)}, longitude : {Num(775946)}]

NextRestart ==
    \/ /\ reply = NoReply
       /\ \E teacher \in Teachers, body \in RestartLectureBodies,
             rendered \in QrRendered, saved \in SaveSucceeds :
                /\ ~lectureInvalid(body) => uuids < MaxUuid
                /\ PostLecture(teacher, body, rendered, saved)
    \/ /\ reply = NoReply
       /\ \E teacher \in Teachers, id \in LectureIds, rendered \in QrRendered,
             saved \in SaveSucceeds :
                /\ regenerateFound(teacher, id) => uuids < MaxUuid
                /\ PostRegenerateQr(teacher, id, rendered, saved)
    \/ /\ reply = NoReply
       /\ \E teacher \in Teachers, id \in LectureIds, saved \in SaveSucceeds :
                DeleteLecture(teacher, id, saved)
    \/ /\ reply = NoReply
       /\ \E body \in RestartMarkBodies, saved \in SaveSucceeds : PostMark(body, saved)
    \/ Restart
    \/ /\ reply = NoReply
       /\ \E d \in ClockSteps : Tick(d)
    \/ ResponseSent

SpecRestart == Init /\ [][NextRestart]_vars

\* The outcome a response of mark-attendance stands for.
Outcome(r) ==
    CASE r.status = 404 -> "TOKEN_NOT_FOUND"
      [] r.status = 410 -> "TOKEN_EXPIRED"
      [] r.status = 409 -> "DUPLICATE"
      [] r.status = 403 -> "LOCATION_REJECTED"
      [] r.status = 201 -> "ACCEPTED"
      [] r.status = 400 /\ r.error # "Token, student name, and roll number are required"
            -> "LOCATION_REQUIRED"
      [] OTHER -> "NONE"

\* A roll number as the ledger keys it: trimmed, upper-cased.
Normalized(s) == toUpperCase(trim(s))

\* A request that carries the three required fields.
RequiredFieldsPresent(body) ==
    Truthy(body.token) /\ Truthy(body.studentName) /\ Truthy(body.rollNumber)

\* A submission: the required fields are there, and name and roll number are
\* strings.
IsSubmission(body) ==
    /\ RequiredFieldsPresent(body)
    /\ body.studentName.t = "string"
    /\ body.rollNumber.t = "string"

MarkReply == reply.op = "mark"
VerifyReply == reply.op = "verify"

\* The lectures that bind a token at present.
Binding(token) == {i \in 1..Len(lectures) : lectures[i].qr_token = token}

\* The records the handler of the response on the wire found in the ledger.
LedgerBefore == SubSeq(attendance, 1, Len(attendance) - Len(reply.created))

-----------------------------------------------------------------------------
(* C1 *)

\* C1: in every reachable state, two distinct attendance records of the same
\* lecture have different normalized (trimmed, upper-cased) roll numbers.
C1_OneRecordPerNormalizedRoll ==
    \A i, j \in 1..Len(attendance) :
        (i # j /\ attendance[i].lecture_id = attendance[j].lecture_id)
            => Normalized(attendance[i].roll_number.s)
                    # Normalized(attendance[j].roll_number.s)

\* A lecture whose token was reissued holds a record made under the earlier
\* token, and a mark under the present token with a variant of the same roll
\* number has just been refused.
C1_Witness ==
    /\ MarkReply
    /\ reply.status = 409
    /\ \E l \in Binding(reply.body.token), i \in 1..Len(attendance) :
          /\ \E s \in superseded : s.id = lectures[l].id
          /\ attendance[i].lecture_id = lectures[l].id
          /\ attendance[i].roll_number.s = Normalized(reply.body.rollNumber.s)
          /\ attendance[i].roll_number # reply.body.rollNumber
          /\ NewDate(attendance[i].marked_at)
                < NewDate(lectures[l].qr_expires_at) - QR_EXPIRY_MINUTES * 60 * 1000
    /\ Len(attendance) = 1

-----------------------------------------------------------------------------
(* C2 *)

\* The lecture that binds a token (tokens are never drawn twice, so there is
\* one at most).
BoundLecture(token) == lectures[CHOOSE l \in Binding(token) : TRUE]

\* The record of a lecture that carries a roll number, up to normalization.
Recorded(ledger, lectureId, roll) ==
    \E i \in 1..Len(ledger) :
        /\ ledger[i].lecture_id = lectureId
        /\ Normalized(ledger[i].roll_number.s) = Normalized(roll.s)

\* The checks in their order, each named by the outcome of its failure, and
\* what it is for a submission to fail the k-th of them.  A check that reads
\* the lecture is failed only by a submission whose token is bound.
\* LocationPresenceCheck is failed by a submission that leaves the latitude
\* or the longitude field out; GeofenceCheck by one whose coordinates
\* validateLocation does not accept.
Checks ==
    <<"TOKEN_NOT_FOUND", "TOKEN_EXPIRED", "DUPLICATE", "LOCATION_REQUIRED",
      "LOCATION_REJECTED">>

Fails(k, body) ==
    CASE k = 1 -> Binding(body.token) = {}
      [] k = 2 -> /\ Binding(body.token) # {}
                  /\ now >= NewDate(BoundLecture(body.token).qr_expires_at)
      [] k = 3 -> /\ Binding(body.token) # {}
                  /\ Recorded(LedgerBefore, BoundLecture(body.token).id, body.rollNumber)
      [] k = 4 -> body.latitude = Undefined \/ body.longitude = Undefined
      [] k = 5 -> /\ Binding(body.token) # {}
                  /\ ~validateLocation(body.latitude, body.longitude,
                                       BoundLecture(body.token).classroom_lat,
                                       BoundLecture(body.token).classroom_lng,
                                       BoundLecture(body.token).allowed_radius).isValid

Failing(body) == {k \in 1..Len(Checks) : Fails(k, body)}

\* C2: the outcome of a submission (required fields there, name and roll
\* number strings) is the outcome of the earliest check it fails, in the order
\* TokenLookup, ExpiryCheck, DuplicateCheck, LocationPresenceCheck,
\* GeofenceCheck, and ACCEPTED when it fails none.
C2_FirstFailureWins ==
    (MarkReply /\ IsSubmission(reply.body)) =>
        Outcome(reply) = IF Failing(reply.body) = {}
                         THEN "ACCEPTED"
                         ELSE Checks[Min(Failing(reply.body))]

\* A submission with an expired token, a roll number already recorded and no
\* coordinates is answered TOKEN_EXPIRED.
C2_Witness ==
    /\ MarkReply
    /\ IsSubmission(reply.body)
    /\ {2, 3, 4} \subseteq Failing(reply.body)
    /\ Outcome(reply) = "TOKEN_EXPIRED"

-----------------------------------------------------------------------------
(* C3 *)

\* The token a request presented.
PresentedToken ==
    IF MarkReply THEN reply.body.token ELSE reply.token

\* C3: once regenerate-qr has replaced a binding, every verify-token, and
\* every mark-attendance carrying its required fields, that presents the
\* replaced token is answered 404 (TOKEN_NOT_FOUND).
C3_SupersededTokenNotFound ==
    \A s \in superseded :
        ( /\ VerifyReply \/ (MarkReply /\ RequiredFieldsPresent(reply.body))
          /\ PresentedToken = s.token )
            => reply.status = 404

\* A mark presenting a replaced token is answered 404 while the replaced
\* token's own expiry instant is still ahead and its lecture still exists.
C3_Witness ==
    /\ MarkReply
    /\ IsSubmission(reply.body)
    /\ reply.status = 404
    /\ \E s \in superseded :
          /\ reply.body.token = s.token
          /\ now < NewDate(s.expiresAt)
          /\ \E l \in 1..Len(lectures) : lectures[l].id = s.id

-----------------------------------------------------------------------------
(* C4 *)

\* C4: a mark-attendance carrying its required fields gets past the token
\* lookup and the expiry check (is answered neither 404 nor 410) exactly when
\* some lecture binds the presented token and now is before its expiry
\* instant; with the token bound and now equal to the expiry instant the
\* answer is 410 (TOKEN_EXPIRED).
C4_TokenPassesIffBoundAndFresh ==
    (MarkReply /\ RequiredFieldsPresent(reply.body)) =>
        /\ reply.status \notin {404, 410}
              <=> \E l \in Binding(reply.body.token) :
                        now < NewDate(lectures[l].qr_expires_at)
        /\ \A l \in Binding(reply.body.token) :
              now = NewDate(lectures[l].qr_expires_at) => reply.status = 410

\* A mark is answered 410 at the very instant its token expires.
C4_Witness ==
    /\ MarkReply
    /\ IsSubmission(reply.body)
    /\ reply.status = 410
    /\ \E l \in Binding(reply.body.token) :
          now = NewDate(lectures[l].qr_expires_at)

-----------------------------------------------------------------------------
(* C5 *)

\* The presented token is bound and its expiry instant has passed.
BoundAndExpired(body) ==
    \E l \in Binding(body.token) : now >= NewDate(lectures[l].qr_expires_at)

\* C5 as stated: a mark-attendance whose token is bound and expired is
\* answered TOKEN_EXPIRED and creates no record, whatever its other fields
\* are, absent ones included.
C5_Original ==
    (MarkReply /\ BoundAndExpired(reply.body)) =>
        Outcome(reply) = "TOKEN_EXPIRED" /\ reply.created = <<>>

\* C5, amended: a mark-attendance whose token is bound and expired, and that
\* carries a name and a roll number, is answered TOKEN_EXPIRED and creates no
\* record, whatever the name, the roll number and the coordinates are, and
\* whether or not the coordinates are there.
C5_ExpiredTokenWins ==
    (MarkReply /\ RequiredFieldsPresent(reply.body) /\ BoundAndExpired(reply.body)) =>
        Outcome(reply) = "TOKEN_EXPIRED" /\ reply.created = <<>>

\* An expired token is answered TOKEN_EXPIRED although the roll number is a
\* number and the latitude is missing.
C5_Witness ==
    /\ MarkReply
    /\ BoundAndExpired(reply.body)
    /\ reply.body.rollNumber.t = "number"
    /\ reply.body.latitude = Undefined
    /\ reply.status = 410
    /\ attendance = LedgerBefore

-----------------------------------------------------------------------------
(* C6 *)

\* The presented token is bound and its expiry instant is ahead.
BoundAndFresh(body) ==
    \E l \in Binding(body.token) : now < NewDate(lectures[l].qr_expires_at)

\* C6: a submission under a fresh token of a lecture whose ledger holds a
\* record with the same roll number up to letter case and leading or trailing
\* white space is answered 409 (DUPLICATE) and creates no record.
C6_VariantIsDuplicate ==
    ( /\ MarkReply
      /\ IsSubmission(reply.body)
      /\ BoundAndFresh(reply.body)
      /\ Recorded(LedgerBefore, BoundLecture(reply.body.token).id,
                  reply.body.rollNumber) )
        => reply.status = 409 /\ reply.created = <<>>

\* "a1 " is refused under the token that "A1" was accepted under.
C6_Witness ==
    /\ MarkReply
    /\ reply.status = 409
    /\ superseded = {}
    /\ reply.body.rollNumber = Str(<<"a", "1", " ">>)
    /\ \E i \in 1..Len(attendance) :
          /\ attendance[i].lecture_id = BoundLecture(reply.body.token).id
          /\ attendance[i].roll_number = Str(<<"A", "1">>)
    /\ attendance = LedgerBefore

-----------------------------------------------------------------------------
(* C7 *)

\* A coordinate that is not there: the field is missing or null.
Absent == {Undefined, Null}

\* C7 (no record without coordinates): a mark-attendance whose latitude or
\* longitude is not there leaves the ledger as it was.
C7_NoRecordWithoutCoordinates ==
    ( /\ MarkReply
      /\ reply.body.latitude \in Absent \/ reply.body.longitude \in Absent )
        => reply.created = <<>>

-----------------------------------------------------------------------------
(* C8 *)

\* C8: every record of the ledger has location_status "verified" and
\* coordinates that are there.
C8_RecordsVerifiedWithCoordinates ==
    \A i \in 1..Len(attendance) :
        /\ attendance[i].location_status = "verified"
        /\ attendance[i].location_lat \notin Absent
        /\ attendance[i].location_lng \notin Absent

-----------------------------------------------------------------------------
(* C9 *)

\* The submission got as far as the geofence check: token bound and fresh,
\* roll number not recorded, both coordinates defined.
ReachesGeofence(body) ==
    /\ IsSubmission(body)
    /\ BoundAndFresh(body)
    /\ ~Recorded(LedgerBefore, BoundLecture(body.token).id, body.rollNumber)
    /\ body.latitude # Undefined
    /\ body.longitude # Undefined

\* The unrounded distance of a submission from the reference point of the
\* lecture its token is bound to.
SubmittedDistance(body) ==
    calculateDistance(body.latitude, body.longitude,
                      BoundLecture(body.token).classroom_lat,
                      BoundLecture(body.token).classroom_lng)

\* The distance is a number no greater than the allowed radius.
WithinRadius(body) ==
    /\ SubmittedDistance(body).t = "number"
    /\ SubmittedDistance(body).n <= BoundLecture(body.token).allowed_radius.n

\* C9: a submission that reaches the geofence check is committed (201, one
\* record appended) exactly when its unrounded distance is at most the allowed
\* radius, equality included, and is otherwise answered 403
\* (LOCATION_REJECTED) with the ledger as it was; and no mark-attendance
\* appends a record unless it is within the radius.
C9_CommitIffWithinRadius ==
    /\ (MarkReply /\ ReachesGeofence(reply.body)) =>
            IF WithinRadius(reply.body)
            THEN reply.status = 201 /\ Len(reply.created) = 1
            ELSE reply.status = 403 /\ reply.created = <<>>
    /\ (MarkReply /\ reply.created # <<>>) =>
            ReachesGeofence(reply.body) /\ WithinRadius(reply.body)

\* A submission whose distance equals the allowed radius is committed.
C9_Witness ==
    /\ MarkReply
    /\ reply.status = 201
    /\ SubmittedDistance(reply.body) = BoundLecture(reply.body.token).allowed_radius
    /\ SubmittedDistance(reply.body).n > 0
    /\ Len(attendance) = Len(LedgerBefore) + 1

-----------------------------------------------------------------------------
(* C10 *)

\* C10: when the distance of a mark-attendance with both coordinates defined
\* computes to NaN, validateLocation answers isValid = FALSE and no record is
\* created.
C10_NaNDistanceFailsClosed ==
    ( /\ MarkReply
      /\ Binding(reply.body.token) # {}
      /\ reply.body.latitude # Undefined
      /\ reply.body.longitude # Undefined
      /\ SubmittedDistance(reply.body) = NaN )
        => /\ ~validateLocation(reply.body.latitude, reply.body.longitude,
                                BoundLecture(reply.body.token).classroom_lat,
                                BoundLecture(reply.body.token).classroom_lng,
                                BoundLecture(reply.body.token).allowed_radius).isValid
           /\ reply.created = <<>>
           /\ reply.status # 201

\* A submission with a non-numeric latitude reached the geofence check and was
\* answered 403, the distance in the message being NaN.
C10_Witness ==
    /\ MarkReply
    /\ ReachesGeofence(reply.body)
    /\ reply.body.latitude.t = "string"
    /\ reply.status = 403
    /\ reply.distance = NaN
    /\ attendance = LedgerBefore

-----------------------------------------------------------------------------
(* C11 *)

\* The response on the wire is that of a create-lecture or a regenerate-qr
\* that issued a token (the handler got past its 400 or 404).
Issued == reply.op \in {"create", "regenerate"} /\ reply.status \notin {400, 404}

\* The token drawn last.
LatestToken == Str(<<"uuid-", ToString(uuids)>>)

\* C11: when create-lecture or regenerate-qr has issued a token, exactly one
\* lecture binds that token and its expiry instant is the issue instant plus
\* 5 minutes (300000 ms), and a success response announces 300 seconds; a
\* verify-token of a bound token made at the issue instant (the expiry instant
\* less 300000 ms) answers valid = true with remainingSeconds = 300; and a
\* verify-token of a bound token answers 410 (expired) exactly when at least
\* 300 seconds have elapsed since the issue instant.
C11_FreshTokenLivesFiveMinutes ==
    /\ Issued =>
          /\ Cardinality(Binding(LatestToken)) = 1
          /\ \A l \in Binding(LatestToken) :
                NewDate(lectures[l].qr_expires_at) = now + 300 * 1000
          /\ reply.status \in {200, 201} =>
                reply.token = LatestToken /\ reply.expiresIn = 300
    /\ VerifyReply =>
          \A l \in Binding(reply.token) :
             LET issuedAt == NewDate(lectures[l].qr_expires_at) - 300 * 1000
             IN  /\ now = issuedAt =>
                       /\ reply.status = 200
                       /\ reply.valid
                       /\ reply.remainingSeconds = 300
                 /\ reply.status = 410 <=> now - issuedAt >= 300 * 1000
                 /\ reply.status = 200 <=> now - issuedAt < 300 * 1000

\* A token reissued after the clock has advanced is verified at its issue
\* instant: valid, 300 seconds remaining.
C11_Witness ==
    /\ VerifyReply
    /\ reply.status = 200
    /\ reply.valid
    /\ reply.remainingSeconds = 300
    /\ now > 0
    /\ \E l \in Binding(reply.token) :
          /\ NewDate(lectures[l].qr_expires_at) = now + 300 * 1000
          /\ \E s \in superseded : s.id = lectures[l].id

-----------------------------------------------------------------------------
(* C12 *)

\* The items of a sequence that pass a test, in their order.
OfLecture(records, id) == SelectSeq(records, LAMBDA a : a.lecture_id = id)
NotOfLecture(records, id) == SelectSeq(records, LAMBDA a : a.lecture_id # id)
LecturesBut(items, id) == SelectSeq(items, LAMBDA l : l.id # id)

\* C12: a step in which delete-lecture answers its owner 200 leaves no
\* lecture of that id and no attendance record of that lecture, so that
\* getLectureById yields null and getAttendanceByLecture yields the empty
\* list for it; the lectures of the other ids and the attendance records of
\* the other lectures are afterwards what they were before, in the same
\* order; and the lecture deleted was the requesting teacher's.
C12_DeleteCascades ==
    [][ \A id \in LectureIds :
          (reply = NoReply /\ reply'.op = "delete" /\ reply'.status = 200
              /\ reply'.id = id)
          => /\ \E l \in 1..Len(lectures) :
                   lectures[l].id = id /\ lectures[l].teacher_id = reply'.teacher
             /\ getLectureById(id)' = Null
             /\ getAttendanceByLecture(id)' = <<>>
             /\ OfLecture(attendance', id) = <<>>
             /\ lectures' = LecturesBut(lectures, id)
             /\ attendance' = NotOfLecture(attendance, id)
      ]_vars

\* A delete has been answered 200 and the ledger holds one record, of
\* another lecture, whose id is 2: the record it was created after went with
\* the deleted lecture.
C12_Witness ==
    /\ reply.op = "delete"
    /\ reply.status = 200
    /\ Len(lectures) = 1
    /\ Len(attendance) = 1
    /\ attendance[1].id = 2
    /\ attendance[1].lecture_id # reply.id
    /\ attendance[1].lecture_id = lectures[1].id

-----------------------------------------------------------------------------
(* C13 *)

\* C13: in every step, the records the ledger held before the step are,
\* unaltered in every field and in their order, the first records of the
\* ledger after it, but for the records of the lecture that the step
\* deleted (a delete-lecture answered 200, after which no lecture has that
\* id); a step of mark-attendance adds at most one record behind them, and
\* a step of regenerate-qr, verify-token, the attendance list or the clock
\* leaves the ledger as it was.
C13_RecordsAppendOnly ==
    [][ /\ \A id \in LectureIds :
             (reply = NoReply /\ reply'.op = "delete" /\ reply'.status = 200
                 /\ reply'.id = id)
             => /\ attendance' = NotOfLecture(attendance, id)
                /\ LecturesBut(lectures', id) = lectures'
        /\ ~(reply = NoReply /\ reply'.op = "delete" /\ reply'.status = 200)
             => /\ Len(attendance') \in {Len(attendance), Len(attendance) + 1}
                /\ SubSeq(attendance', 1, Len(attendance)) = attendance
        /\ (reply = NoReply /\ reply'.op # "mark" /\ reply'.op # "delete")
             => attendance' = attendance
        /\ (reply = NoReply /\ reply'.op = "mark")
             => Len(attendance') = Len(attendance) + Len(reply'.created)
      ]_vars

\* The teacher's list shows two records made at different instants, the
\* first of them made before the lecture's token was reissued.
C13_Witness ==
    /\ reply.op = "list"
    /\ reply.status = 200
    /\ reply.attendance = attendance
    /\ Len(attendance) = 2
    /\ NewDate(attendance[1].marked_at) < NewDate(attendance[2].marked_at)
    /\ \E s \in superseded : s.id = reply.id
    /\ \E l \in 1..Len(lectures) :
          /\ lectures[l].id = reply.id
          /\ NewDate(attendance[1].marked_at)
                < NewDate(lectures[l].qr_expires_at) - 300 * 1000

-----------------------------------------------------------------------------
(* C14 *)

\* The records that data.json holds.
Persisted == {disk.attendance[i] : i \in 1..Len(disk.attendance)}

\* C14: when mark-attendance answers 201 the record it created is in
\* data.json, and whatever mark-attendance answers, the ledger holds no
\* record that data.json lacks (a save() that failed is not answered 201
\* and leaves no unpersisted record behind).
C14_StorageFailureIsFatal ==
    MarkReply =>
        /\ reply.status = 201 => reply.created[1] \in Persisted
        /\ \A i \in 1..Len(attendance) : attendance[i] \in Persisted

-----------------------------------------------------------------------------
(* C15 *)

\* The ledger holds a record of that lecture and that stored roll number.
Holds(ledger, lectureId, roll) ==
    \E j \in 1..Len(ledger) :
        ledger[j].lecture_id = lectureId /\ ledger[j].roll_number = roll

\* C15: with requests arriving while other handlers are suspended at their
\* await, in every step that adds a record to the ledger the record is added
\* by a mark-attendance that answers 201 in that same step, the ledger as it
\* was immediately before the step held no record of that lecture and that
\* normalized roll number (the duplicate check and the append are one step),
\* and after the step no two records of one lecture have the same normalized
\* roll number; no mark-attendance is ever suspended.
C15_CheckAndAppendAtomic ==
    [][ /\ \A i \in (Len(attendance) + 1)..Len(attendance') :
              /\ reply = NoReply
              /\ reply'.op = "mark"
              /\ reply'.status = 201
              /\ reply'.created = <<attendance'[i]>>
              /\ attendance'[i].roll_number = normalizedRollOf(reply'.body.rollNumber)
              /\ ~Holds(attendance, attendance'[i].lecture_id,
                        attendance'[i].roll_number)
        /\ C1_OneRecordPerNormalizedRoll'
        /\ \A k \in 1..Len(awaiting') : awaiting'[k].kind # "mark"
      ]_vars

\* While a create-lecture or a regenerate-qr is suspended, a second
\* submission of a roll number, made at the instant of the first, is
\* refused as a duplicate.
C15_Witness ==
    /\ MarkReply
    /\ reply.status = 409
    /\ awaiting # <<>>
    /\ \E i \in 1..Len(attendance) :
          /\ attendance[i].roll_number = normalizedRollOf(reply.body.rollNumber)
          /\ NewDate(attendance[i].marked_at) = now

-----------------------------------------------------------------------------
(* C16 *)

\* The regenerate-qr handlers suspended at their await, each having written
\* its binding.
Regenerating == {k \in 1..Len(awaiting) : awaiting[k].kind = "regenerate"}

\* C16: with marks handled while regenerate-qr handlers are suspended after
\* their write, in every reachable state (1) a lecture that binds the token
\* of a suspended regenerate-qr is the lecture of that request and has the
\* expiry instant drawn with that token, (2) no lecture binds a replaced
\* token, and (3) a mark-attendance carrying its required fields that
\* presents a replaced token is answered 404 and creates no record, while
\* one that presents the token of a suspended regenerate-qr, still bound, is
\* judged by that token's own expiry instant: 410 exactly from that instant
\* on, never 404.
C16_ReissueSerializedWithLookup ==
    /\ \A k \in Regenerating, l \in 1..Len(lectures) :
          lectures[l].qr_token = awaiting[k].token
             => /\ lectures[l].id = awaiting[k].id
                /\ lectures[l].qr_expires_at = awaiting[k].expiresAt
    /\ \A s \in superseded : Binding(s.token) = {}
    /\ (MarkReply /\ RequiredFieldsPresent(reply.body)) =>
          /\ \A s \in superseded :
                reply.body.token = s.token
                   => reply.status = 404 /\ reply.created = <<>>
          /\ \A k \in Regenerating :
                (reply.body.token = awaiting[k].token
                    /\ Binding(awaiting[k].token) # {})
                   => /\ reply.status # 404
                      /\ reply.status = 410
                            <=> NewDate(awaiting[k].expiresAt) <= now

\* While the regenerate-qr that replaced it is still suspended, a mark
\* presenting the replaced token, before that token's expiry instant, is
\* answered 404.
C16_Witness ==
    /\ MarkReply
    /\ reply.status = 404
    /\ \E s \in superseded, k \in Regenerating :
          /\ reply.body.token = s.token
          /\ awaiting[k].id = s.id
          /\ now < NewDate(s.expiresAt)
          /\ NewDate(s.expiresAt) < NewDate(awaiting[k].expiresAt)

-----------------------------------------------------------------------------
(* C17 *)

\* The binding of a lecture: its token and its expiry instant.
BindingOf(lecture) ==
    [token |-> lecture.qr_token, expiresAt |-> lecture.qr_expires_at]

\* C17: after every step, each lecture has one token, a string, and one
\* expiry instant, no two lectures have the same id or the same token; and a
\* lecture that exists before and after a step has the same binding (token,
\* expiry instant) after it as before, unless the step is a regenerate-qr
\* for that lecture's id by that lecture's teacher that got past its 404.
C17_BindingChangesOnlyOnReissue ==
    [][ /\ \A l \in 1..Len(lectures') :
              /\ lectures'[l].qr_token.t = "string"
              /\ lectures'[l].qr_expires_at.t = "string"
              /\ \A m \in 1..Len(lectures') :
                    (lectures'[l].id = lectures'[m].id
                        \/ lectures'[l].qr_token = lectures'[m].qr_token)
                    => l = m
        /\ \A l \in 1..Len(lectures), m \in 1..Len(lectures') :
              (lectures[l].id = lectures'[m].id
                  /\ BindingOf(lectures[l]) # BindingOf(lectures'[m]))
              => /\ reply = NoReply
                 /\ reply'.op = "regenerate"
                 /\ reply'.status \in {200, 500}
                 /\ reply'.id = lectures[l].id
                 /\ reply'.teacher = lectures[l].teacher_id
      ]_vars

\* Two lectures of two teachers exist, the token of the second has just been
\* reissued, and the first still has the token drawn at its creation, under
\* which a record was made.
C17_Witness ==
    /\ reply.op = "regenerate"
    /\ reply.status = 200
    /\ Len(lectures) = 2
    /\ lectures[1].teacher_id # lectures[2].teacher_id
    /\ reply.id = lectures[2].id
    /\ lectures[2].qr_token = reply.token
    /\ lectures[1].qr_token = Str(<<"uuid-", "1">>)
    /\ \E i \in 1..Len(attendance) : attendance[i].lecture_id = lectures[1].id

-----------------------------------------------------------------------------
(* C18 *)

\* What the caller of mark-attendance sees: the status code and the error
\* message (the message of a 403 quotes the distance and the radius; its
\* fixed part is kept).
Signal(r) == <<r.status, r.error>>

\* The outcome a caller reads from a signal.
Decoded(signal) ==
    CASE signal = <<404, "Invalid QR code">> -> "TOKEN_NOT_FOUND"
      [] signal = <<410, "QR code has expired. Please ask your teacher to generate a new one.">>
            -> "TOKEN_EXPIRED"
      [] signal = <<409, "Attendance already marked for this roll number">>
            -> "DUPLICATE"
      [] signal = <<400, "Location permission is required to mark attendance. Please enable GPS and try again.">>
            -> "LOCATION_REQUIRED"
      [] signal = <<403, "Location mismatch">> -> "LOCATION_REJECTED"
      [] signal = <<201, "">> -> "ACCEPTED"
      [] signal = <<400, "Token, student name, and roll number are required">>
            -> "FIELDS_REQUIRED"
      [] signal = <<500, "Server error while marking attendance">>
            -> "SERVER_ERROR"
      [] OTHER -> "UNKNOWN"

\* What became of a request, told from the request and the state the handler
\* found, not from the response: the two failures outside the pipeline (a
\* required field missing; a roll number that is no string, on which the
\* handler throws once the token has passed), or else the earliest check
\* failed, or ACCEPTED.
Fate(body) ==
    IF ~RequiredFieldsPresent(body) THEN "FIELDS_REQUIRED"
    ELSE IF Fails(1, body) THEN Checks[1]
    ELSE IF Fails(2, body) THEN Checks[2]
    ELSE IF body.rollNumber.t # "string" THEN "SERVER_ERROR"
    ELSE IF Fails(3, body) THEN Checks[3]
    ELSE IF Fails(4, body) THEN Checks[4]
    ELSE IF Fails(5, body) THEN Checks[5]
    ELSE "ACCEPTED"

\* C18: the signal of every response of mark-attendance (status code and
\* error message) tells what became of the request: read by one fixed
\* decoding, it yields TOKEN_NOT_FOUND, TOKEN_EXPIRED, DUPLICATE,
\* LOCATION_REQUIRED, LOCATION_REJECTED or ACCEPTED exactly for the requests
\* that met that outcome, and neither of the two failures outside the
\* pipeline is read as one of the six; a record is created with the ACCEPTED
\* signal and with no other.
C18_OutcomesDistinguishable ==
    MarkReply =>
        /\ Decoded(Signal(reply)) = Fate(reply.body)
        /\ reply.created # <<>> <=> Decoded(Signal(reply)) = "ACCEPTED"

\* A request without coordinates is answered with status 400, the status of
\* a request without its required fields, and the message tells them apart.
C18_Witness ==
    /\ MarkReply
    /\ reply.status = 400
    /\ Fate(reply.body) = "LOCATION_REQUIRED"
    /\ Decoded(Signal(reply)) = "LOCATION_REQUIRED"

-----------------------------------------------------------------------------
(* C19 *)

\* The teacher has a lecture of that id.
Owns(teacher, id) ==
    \E l \in 1..Len(lectures) :
        lectures[l].id = id /\ lectures[l].teacher_id = teacher

\* C19: in every step of delete-lecture, a request by a teacher who has no
\* lecture of the requested id (the lecture is another teacher's, or there
\* is none) is answered 404 and leaves the lectures with their bindings,
\* the attendance records and data.json as they were; only the request of
\* the lecture's own teacher is answered 200.
C19_DeleteOwnershipChecked ==
    [][ (reply = NoReply /\ reply'.op = "delete") =>
          /\ ~Owns(reply'.teacher, reply'.id) =>
                /\ reply'.status = 404
                /\ lectures' = lectures
                /\ attendance' = attendance
                /\ disk' = disk
          /\ reply'.status = 200 <=> Owns(reply'.teacher, reply'.id)
      ]_vars

\* A teacher's delete of another teacher's lecture, which has an attendance
\* record, has been answered 404; the lecture and the record are there.
C19_Witness ==
    /\ reply.op = "delete"
    /\ reply.status = 404
    /\ \E l \in 1..Len(lectures) :
          /\ lectures[l].id = reply.id
          /\ lectures[l].teacher_id # reply.teacher
          /\ \E i \in 1..Len(attendance) : attendance[i].lecture_id = reply.id

-----------------------------------------------------------------------------
(* C20 *)

\* C20: the allowed radius of every stored lecture is a number, positive and
\* a whole number of metres (radii are in millimetres here).
C20_RadiusPositiveInteger ==
    \A l \in 1..Len(lectures) :
        /\ lectures[l].allowed_radius.t = "number"
        /\ lectures[l].allowed_radius.n > 0
        /\ lectures[l].allowed_radius.n % 1000 = 0

-----------------------------------------------------------------------------
(* C21 *)

\* The lecture has had one token only: no binding of its id was replaced, so
\* that its records were all made under the token it binds.
NeverReissued(lecture) == \A s \in superseded : s.id # lecture.id

\* C21: when a mark-attendance is answered 201, the ledger it found held no
\* record made under the token it presented (told for a lecture whose token
\* was never reissued: no record of that lecture).
C21_TokenSingleUse ==
    (MarkReply /\ reply.status = 201) =>
        \A l \in Binding(reply.body.token) :
            NeverReissued(lectures[l]) =>
                \A i \in 1..Len(LedgerBefore) :
                    LedgerBefore[i].lecture_id # lectures[l].id

-----------------------------------------------------------------------------
(* C22 *)

\* The ids of the items of a collection, in the collection's order.
IdsOf(items) == [i \in 1..Len(items) |-> items[i].id]

\* No id occurs twice.
Distinct(ids) == \A i, j \in 1..Len(ids) : ids[i] = ids[j] => i = j

\* A sequence less its k-th item.
Less(items, k) == SubSeq(items, 1, k - 1) \o SubSeq(items, k + 1, Len(items))

\* C22: after every step no two lectures have the same id and no two
\* attendance records have the same id; and a step leaves every lecture it
\* does not delete with the id (and the teacher) it had: the lectures after
\* the step are the lectures before it with their ids, or those followed by
\* one new lecture, or those less one lecture.
C22_IdentifiersUniqueAndStable ==
    [][ /\ Distinct(IdsOf(lectures'))
        /\ Distinct(IdsOf(attendance'))
        /\ LET before == [i \in 1..Len(lectures) |->
                             <<lectures[i].id, lectures[i].teacher_id>>]
               after == [i \in 1..Len(lectures') |->
                             <<lectures'[i].id, lectures'[i].teacher_id>>]
           IN  \/ after = before
               \/ /\ Len(after) = Len(before) + 1
                  /\ SubSeq(after, 1, Len(before)) = before
               \/ \E k \in 1..Len(before) : after = Less(before, k)
      ]_vars

\* The first lecture was deleted with its record; a lecture created and a
\* record made afterwards have ids above those that remained.
C22_Witness ==
    /\ IdsOf(lectures) = <<2, 3>>
    /\ IdsOf(attendance) = <<2, 3>>
    /\ attendance[1].lecture_id = 2
    /\ attendance[2].lecture_id = 3

-----------------------------------------------------------------------------
(* C23 *)

\* C23: a teacher's list of a lecture's attendance answered 200 carries the
\* records of the ledger that belong to that lecture, all of them and no
\* other, in the order in which the ledger holds them (the order in which
\* they were accepted); their marked_at instants ascend; totalStudents is
\* their number.
C23_ListByCreationInstant ==
    (reply.op = "list" /\ reply.status = 200) =>
        /\ reply.attendance = OfLecture(attendance, reply.id)
        /\ \A i, j \in 1..Len(reply.attendance) :
              i < j => NewDate(reply.attendance[i].marked_at)
                          <= NewDate(reply.attendance[j].marked_at)
        /\ reply.totalStudents = Len(reply.attendance)

\* The ledger holds a record of each of two lectures; the list of the second
\* lecture shows the later record alone.
C23_Witness ==
    /\ reply.op = "list"
    /\ reply.status = 200
    /\ Len(attendance) = 2
    /\ attendance[1].lecture_id # reply.id
    /\ reply.attendance = <<attendance[2]>>
    /\ NewDate(attendance[1].marked_at) < NewDate(attendance[2].marked_at)

-----------------------------------------------------------------------------
(* C24 *)

\* r is the whole seconds of max(0, expiry - now): r whole seconds have
\* passed, the next one has not.
WholeSecondsLeft(r, expiresAt) ==
    LET left == IF NewDate(expiresAt) > now THEN NewDate(expiresAt) - now ELSE 0
    IN  /\ r >= 0
        /\ r * 1000 <= left
        /\ left < (r + 1) * 1000

\* C24: the remainingSeconds of a lecture-detail response (200) and of a
\* verify-token response (200) is the whole seconds of max(0, expiry - now),
\* so it is never negative; in the lecture-detail response it is 0 whenever
\* the token is expired (now at or past the expiry instant), and isExpired
\* says so.
C24_RemainingSecondsClamped ==
    /\ (reply.op = "detail" /\ reply.status = 200) =>
          /\ WholeSecondsLeft(reply.remainingSeconds, reply.lecture.qr_expires_at)
          /\ reply.isExpired <=> NewDate(reply.lecture.qr_expires_at) <= now
          /\ reply.isExpired => reply.remainingSeconds = 0
    /\ (VerifyReply /\ reply.status = 200) =>
          \A l \in Binding(reply.token) :
             WholeSecondsLeft(reply.remainingSeconds, lectures[l].qr_expires_at)

\* The lecture's detail is read 0.2 s after its token expired: expired, 0
\* seconds remaining.
C24_Witness ==
    /\ reply.op = "detail"
    /\ reply.status = 200
    /\ reply.isExpired
    /\ reply.remainingSeconds = 0
    /\ now - NewDate(reply.lecture.qr_expires_at) = 200

-----------------------------------------------------------------------------
(* C25 *)

\* A point whose latitude and longitude are numbers.
IsPoint(p) == p.lat.t = "number" /\ p.lng.t = "number"

\* C25: for any two points a and b with numeric coordinates,
\* calculateDistance yields the same number from a to b as from b to a, and
\* 0 from a to a.
C25_DistanceSymmetricZeroOnSame ==
    (reply.op = "distance" /\ IsPoint(reply.a) /\ IsPoint(reply.b)) =>
        /\ reply.ab.t = "number"
        /\ reply.ab = reply.ba
        /\ reply.aa = Num(0)

\* Two points of different latitude and different longitude have been
\* measured: the same positive distance both ways.
C25_Witness ==
    /\ reply.op = "distance"
    /\ IsPoint(reply.a)
    /\ IsPoint(reply.b)
    /\ reply.a.lat # reply.b.lat
    /\ reply.a.lng # reply.b.lng
    /\ reply.ab = reply.ba
    /\ reply.ab.n > 0

-----------------------------------------------------------------------------
(* C26 *)

\* C26: every step of mark-attendance leaves the lectures (their token
\* bindings included) as they were; answered anything but 201 it leaves the
\* attendance records and data.json as they were too; answered 201 it adds
\* one record behind the records there were, and that record belongs to the
\* lecture that binds the presented token and carries the roll number
\* trimmed and upper-cased, the name trimmed, and the latitude and longitude
\* as submitted, and data.json is written with it.
C26_MarkFrame ==
    [][ (reply = NoReply /\ reply'.op = "mark") =>
          /\ lectures' = lectures
          /\ UNCHANGED <<uuids, superseded, now>>
          /\ reply'.status # 201 =>
                /\ attendance' = attendance
                /\ disk' = disk
                /\ reply'.created = <<>>
          /\ reply'.status = 201 =>
                /\ Len(attendance') = Len(attendance) + 1
                /\ SubSeq(attendance', 1, Len(attendance)) = attendance
                /\ reply'.created = <<attendance'[Len(attendance')]>>
                /\ \E l \in Binding(reply'.body.token) :
                      attendance'[Len(attendance')].lecture_id = lectures[l].id
                /\ attendance'[Len(attendance')].roll_number
                      = Str(Normalized(reply'.body.rollNumber.s))
                /\ attendance'[Len(attendance')].student_name
                      = Str(trim(reply'.body.studentName.s))
                /\ attendance'[Len(attendance')].location_lat = reply'.body.latitude
                /\ attendance'[Len(attendance')].location_lng = reply'.body.longitude
                /\ disk' = [lectures |-> lectures, attendance |-> attendance']
      ]_vars

\* A submission whose roll number and name needed trimming has been accepted
\* for the second of two lectures, behind a record of the first.
C26_Witness ==
    /\ MarkReply
    /\ reply.status = 201
    /\ reply.body.rollNumber = Str(<<"a", "1", " ">>)
    /\ Len(lectures) = 2
    /\ Len(attendance) = 2
    /\ attendance[1].lecture_id = lectures[1].id
    /\ attendance[2].lecture_id = lectures[2].id
    /\ attendance[2].roll_number = Str(<<"A", "1">>)
    /\ attendance[2].student_name = Str(<<"x">>)
    /\ attendance[2].location_lat = reply.body.latitude

-----------------------------------------------------------------------------
(* C27 *)

\* The lecture of that id, in a collection that has one.
LectureOf(items, id) == items[CHOOSE l \in 1..Len(items) : items[l].id = id]

-----------------------------------------------------------------------------
(* C28 *)

\* C28: a step in which create-lecture or regenerate-qr answers 500 leaves
\* the lectures with their token bindings, the attendance records and
\* data.json as they were.
C28_ErrorLeavesStoreUnchanged ==
    [][ (reply = NoReply /\ reply'.op \in {"create", "regenerate"}
            /\ reply'.status = 500) =>
          /\ lectures' = lectures
          /\ attendance' = attendance
          /\ disk' = disk
      ]_vars

-----------------------------------------------------------------------------
(* C29 *)

\* The tokens drawn so far (uuidv4 never repeats a value).
Drawn == {Str(<<"uuid-", ToString(k)>>) : k \in 1..uuids}

\* The tokens that a lecture bound until the lecture was deleted: drawn,
\* bound by no lecture now, and never replaced by regenerate-qr.
DeletedTokens ==
    {t \in Drawn : Binding(t) = {} /\ \A s \in superseded : s.token # t}

\* C29: a step in which delete-lecture answers 200 leaves the token of the
\* deleted lecture bound by no lecture; a verify-token, or a mark-attendance
\* carrying its required fields, that presents the token of a deleted
\* lecture is answered 404 and leaves the ledger as it was; and after every
\* step each attendance record belongs to a lecture that exists.
C29_DeletedTokenNotFound ==
    [][ /\ \A l \in 1..Len(lectures) :
              (reply = NoReply /\ reply'.op = "delete" /\ reply'.status = 200
                  /\ reply'.id = lectures[l].id)
              => /\ \A m \in 1..Len(lectures') :
                       lectures'[m].qr_token # lectures[l].qr_token
                 /\ \A i \in 1..Len(attendance') :
                       attendance'[i].lecture_id # lectures[l].id
        /\ \A t \in DeletedTokens :
              (/\ reply = NoReply
               /\ \/ reply'.op = "verify"
                  \/ reply'.op = "mark" /\ RequiredFieldsPresent(reply'.body)
               /\ PresentedToken' = t)
              => /\ reply'.status = 404
                 /\ attendance' = attendance
        /\ \A i \in 1..Len(attendance') :
              \E m \in 1..Len(lectures') : lectures'[m].id = attendance'[i].lecture_id
      ]_vars

\* A submission presents, at the instant it was issued, the token of a
\* lecture that has been deleted, while another lecture exists: 404.
C29_Witness ==
    /\ MarkReply
    /\ IsSubmission(reply.body)
    /\ reply.status = 404
    /\ reply.body.token \in DeletedTokens
    /\ now = 0
    /\ lectures # <<>>

-----------------------------------------------------------------------------
(* C30 *)

\* C30: a submission that carries its required fields and presents a token
\* bound to lecture E2 is answered DUPLICATE (409) only when the ledger
\* already held a record of E2 itself under the normalized roll number; a
\* record under that roll number for another lecture E1 never has that
\* effect.
C30_DuplicateScopedToLecture ==
    (MarkReply /\ RequiredFieldsPresent(reply.body) /\ reply.status = 409)
    => /\ Binding(reply.body.token) # {}
       /\ Recorded(LedgerBefore, BoundLecture(reply.body.token).id,
                   reply.body.rollNumber)

\* A student recorded for one lecture submits the same normalized roll
\* number for another lecture and is recorded there too.
C30_Witness ==
    /\ MarkReply
    /\ reply.status = 201
    /\ Binding(reply.body.token) # {}
    /\ \E i \in 1..Len(LedgerBefore) :
          /\ LedgerBefore[i].lecture_id # BoundLecture(reply.body.token).id
          /\ Normalized(LedgerBefore[i].roll_number.s)
                = Normalized(reply.body.rollNumber.s)
    /\ ~Recorded(LedgerBefore, BoundLecture(reply.body.token).id,
                 reply.body.rollNumber)
    /\ Recorded(attendance, BoundLecture(reply.body.token).id,
                reply.body.rollNumber)

-----------------------------------------------------------------------------
(* C31 *)

\* The submissions carrying their required fields that present a token.
SubmissionsWith(token) ==
    {body \in MarkBodies : body.token = token /\ RequiredFieldsPresent(body)}

\* C31: when verify-token has answered, a mark-attendance that carries its
\* required fields and presents the same token, handled in the same store
\* at the same instant, is answered 404 exactly when verify-token answered
\* 404, 410 exactly when verify-token answered 410, and passes both the
\* token lookup and the expiry check exactly when verify-token reported
\* valid = true.
C31_VerifyAgreesWithMark ==
    VerifyReply =>
        \A body \in SubmissionsWith(reply.token) :
            /\ markAttendance(body).status = 404 <=> reply.status = 404
            /\ markAttendance(body).status = 410 <=> reply.status = 410
            /\ markAttendance(body).status \notin {404, 410} <=> reply.valid

\* verify-token is asked at the very instant the bound token expires and
\* answers 410, as a submission presenting the token would be answered.
C31_Witness ==
    /\ VerifyReply
    /\ reply.status = 410
    /\ \E l \in Binding(reply.token) : NewDate(lectures[l].qr_expires_at) = now
    /\ \E body \in SubmissionsWith(reply.token) : markAttendance(body).status = 410

-----------------------------------------------------------------------------
(* C32 *)

\* The routes that name a lecture by its id on behalf of a teacher.
LectureRoutes == {"detail", "regenerate", "delete", "list", "export"}

\* C32: in every step in which get-lecture, regenerate-qr, delete-lecture,
\* list-attendance or export answers a teacher who is not the teacher of the
\* lecture named, the answer is 404 'Lecture not found' and carries nothing
\* but the request's own route, id and teacher (the answer given for an id
\* that no lecture has), and lectures, attendance records, data.json and
\* the bindings drawn and replaced stay as they were; and every lecture in
\* an answer of list-lectures is the caller's own, each of the caller's
\* lectures being in it.
C32_TeacherIsolation ==
    [][ /\ (reply = NoReply /\ reply'.op \in LectureRoutes
                /\ ~Owns(reply'.teacher, reply'.id))
           => /\ reply' = [op |-> reply'.op, id |-> reply'.id,
                           teacher |-> reply'.teacher, status |-> 404,
                           error |-> "Lecture not found"]
              /\ UNCHANGED <<lectures, attendance, disk, uuids, superseded>>
        /\ (reply = NoReply /\ reply'.op = "lectures")
           => /\ \A i \in 1..Len(reply'.lectures) :
                    reply'.lectures[i].teacher_id = reply'.teacher
              /\ {reply'.lectures[i].id : i \in 1..Len(reply'.lectures)}
                    = {lectures[l].id : l \in {m \in 1..Len(lectures) :
                                            lectures[m].teacher_id = reply'.teacher}}
      ]_vars

\* A teacher who has a lecture lists the lectures while the other teacher
\* has one too, with an attendance record, and is shown one lecture.
C32_Witness ==
    /\ reply.op = "lectures"
    /\ Len(reply.lectures) = 1
    /\ Len(lectures) = 2
    /\ \E l \in 1..Len(lectures) :
          /\ lectures[l].teacher_id # reply.teacher
          /\ \E i \in 1..Len(attendance) : attendance[i].lecture_id = lectures[l].id

-----------------------------------------------------------------------------
(* C33 *)

\* The teacher routes: every route of the model but the two public ones.
ProtectedRoutes ==
    {"create", "regenerate", "delete", "lectures", "detail", "list", "export"}

\* The tokens that generateToken signed and that have not expired, and the
\* teachers they were signed for.
ValidJwts == {Str(<<"jwt-1">>), Str(<<"jwt-2">>)}
Verified == OwnerTeachers

\* Whether a request carries a token, and whether it carries one that
\* verifies.
CarriesToken(h) == Truthy(bearerToken(h))
CarriesValidToken(h) == CarriesToken(h) /\ bearerToken(h) \in ValidJwts

\* C33: for every Authorization header, authenticateToken either sends one
\* response or calls next(), never both and never neither; in every step in
\* which it answers a request, the request carried no token and the answer
\* is 401, or carried a token that does not verify and the answer is 403,
\* and nothing of the state changes; and a handler of a teacher route acts
\* only for a teacher whose token verifies: no response of such a route and
\* no lecture names the teacher of the expired token.
C33_AuthenticateTokenGuards ==
    [][ /\ \A h \in Authorizations :
              /\ Len(authenticateToken(h).responses)
                    + (IF authenticateToken(h).next THEN 1 ELSE 0) = 1
              /\ authenticateToken(h).next <=> CarriesValidToken(h)
        /\ (reply = NoReply /\ reply'.op = "auth")
           => /\ reply'.responses = 1
              /\ ~CarriesToken(reply'.authorization) <=> reply'.status = 401
              /\ (/\ CarriesToken(reply'.authorization)
                  /\ ~CarriesValidToken(reply'.authorization))
                 <=> reply'.status = 403
              /\ UNCHANGED <<lectures, attendance, disk, uuids, superseded, now>>
        /\ (reply = NoReply /\ reply'.op \in ProtectedRoutes
                /\ "teacher" \in DOMAIN reply')
           => reply'.teacher \in Verified
        /\ \A l \in 1..Len(lectures') : lectures'[l].teacher_id \in Verified
      ]_vars

\* A request presenting the expired token is answered 403 while a lecture
\* exists that it could have read.
C33_Witness ==
    /\ reply.op = "auth"
    /\ reply.status = 403
    /\ reply.authorization = Str(<<"Bearer", " ", "jwt-3-expired">>)
    /\ lectures # <<>>

-----------------------------------------------------------------------------
(* C34 *)

\* C34: in every reachable state each attendance record has a roll number
\* that is not empty and equals its own normalization (trimmed, upper-cased)
\* and a student name that is not empty.
C34_RecordsHaveRollAndName ==
    \A i \in 1..Len(attendance) :
        /\ attendance[i].roll_number.s # <<>>
        /\ Normalized(attendance[i].roll_number.s) = attendance[i].roll_number.s
        /\ attendance[i].student_name.s # <<>>

-----------------------------------------------------------------------------
(* C35 *)

\* Every record of a ledger belongs to one of the lectures.
Referenced(ledger, items) ==
    \A i \in 1..Len(ledger) :
        \E l \in 1..Len(items) : items[l].id = ledger[i].lecture_id

\* C35: before and after every step each attendance record's lecture_id is
\* the id of an existing lecture, and after a step in which create-lecture
\* has added a lecture no attendance record carries the new lecture's id,
\* whether or not a deleted lecture had that id before.
C35_LedgerReferentialIntegrity ==
    [][ /\ Referenced(attendance, lectures)
        /\ Referenced(attendance', lectures')
        /\ (reply = NoReply /\ reply'.op = "create"
                /\ Len(lectures') = Len(lectures) + 1)
           => \A i \in 1..Len(attendance') :
                 attendance'[i].lecture_id # lectures'[Len(lectures')].id
      ]_vars

\* create-lecture gives the second lecture ever created the id 1, which the
\* first, since deleted, had; the ledger is empty.
C35_Witness ==
    /\ reply.op = "create"
    /\ reply.status = 201
    /\ Len(lectures) = 1
    /\ lectures[1].id = 1
    /\ lectures[1].qr_token = Str(<<"uuid-", "2">>)
    /\ superseded = {}
    /\ attendance = <<>>

-----------------------------------------------------------------------------
(* C36 *)

\* The lectures that bind a token among some lectures.
BoundBy(items, token) == {l \in 1..Len(items) : items[l].qr_token = token}

\* C36: uuidv4 returning a value never returned before, after every step no
\* two lectures bind the same token, no token replaced by regenerate-qr is
\* bound by a lecture, and a token that had been drawn and was bound by no
\* lecture before the step (it was replaced, or its lecture was deleted) is
\* bound by no lecture after it.
C36_TokenResolvesToOneLecture ==
    [][ /\ \A t \in Drawn' : Cardinality(BoundBy(lectures', t)) <= 1
        /\ \A s \in superseded' : BoundBy(lectures', s.token) = {}
        /\ \A t \in Drawn : BoundBy(lectures, t) = {} => BoundBy(lectures', t) = {}
        /\ \A l \in 1..Len(lectures') : lectures'[l].qr_token \in Drawn'
      ]_vars

\* A lecture is created and bound to the third token drawn, after one token
\* was replaced and the lecture bound to another was deleted.
C36_Witness ==
    /\ reply.op = "create"
    /\ reply.status = 201
    /\ reply.token = Str(<<"uuid-", "3">>)
    /\ superseded # {}
    /\ DeletedTokens # {}
    /\ BoundBy(lectures, reply.token) # {}

-----------------------------------------------------------------------------
(* C37 *)

\* C37: in every lecture-detail response answered 200, qrCode is not null
\* exactly when isExpired is false, and isExpired is false exactly when the
\* clock is before the lecture's expiry instant; the QR code shown is that
\* of the lecture's current token.
C37_DetailSelfConsistent ==
    (reply.op = "detail" /\ reply.status = 200)
    => /\ reply.qrCode # Null <=> ~reply.isExpired
       /\ ~reply.isExpired <=> now < NewDate(reply.lecture.qr_expires_at)
       /\ reply.qrCode # Null => reply.qrCode = reply.lecture.qr_token

\* The teacher reads the detail of a lecture at the very instant its token
\* expires: no QR code, isExpired.
C37_Witness ==
    /\ reply.op = "detail"
    /\ reply.status = 200
    /\ now = NewDate(reply.lecture.qr_expires_at)
    /\ reply.qrCode = Null
    /\ reply.isExpired

-----------------------------------------------------------------------------
(* C38 *)

\* C38: every mark request the student page is waiting for carries the
\* coordinates of a location, and in every step in which the page sends a
\* mark request studentLocation is set and the request carries its latitude
\* and longitude, whatever the order of verification, location requests and
\* retries, timer and submit events.
C38_MarkOnlyWithLocation ==
    [][ /\ \A i \in 1..Len(page'.marks) :
              /\ page'.marks[i].latitude.t = "number"
              /\ page'.marks[i].longitude.t = "number"
        /\ Len(page'.marks) > Len(page.marks)
           => /\ page.studentLocation # Null
              /\ page'.marks[Len(page'.marks)].latitude = page.studentLocation.latitude
              /\ page'.marks[Len(page'.marks)].longitude = page.studentLocation.longitude
      ]_vars

\* The first location request failed, a retry succeeded, and the page has
\* sent a mark request since.
C38_Witness ==
    /\ page.retry
    /\ page.studentLocation # Null
    /\ page.marks # <<>>
    /\ page.state = "form"

-----------------------------------------------------------------------------
(* C39 *)

\* C39: a page that shows the success state does not show the invalid state
\* after the next step, and its timer is not running; a step in which the
\* countdown reaches 0 ends with the invalid state shown and the timer
\* cleared; and a cleared timer stays cleared and counts no further.
C39_SuccessNotReplacedByInvalid ==
    [][ /\ page.state = "success" => page'.state # "invalid"
        /\ page'.state = "success" => page'.timerInterval # "running"
        /\ (page.timerInterval = "running" /\ page'.seconds # page.seconds
                /\ page'.seconds <= 0)
           => /\ page'.state = "invalid"
              /\ page'.timerInterval = "cleared"
        /\ page.timerInterval = "cleared"
           => /\ page'.timerInterval = "cleared"
              /\ page'.seconds = page.seconds
      ]_vars

\* The success state is shown with a second left on the countdown, which
\* has counted once and is stopped.
C39_Witness ==
    /\ page.state = "success"
    /\ page.timerInterval = "cleared"
    /\ page.seconds = 1

-----------------------------------------------------------------------------
(* C40 *)

\* C40: every save() succeeding, in every reachable state data.json holds
\* exactly the lectures, with their bindings, and the attendance records that
\* the arrays in memory hold, so that a restart changes neither.
C40_PersistedEqualsStore ==
    disk = [lectures |-> lectures, attendance |-> attendance]

====
